---- MODULE Spec2Model ----
(***************************************************************************)
(* BufStream (block-device-adapters/src/buf_stream.rs): a one-slot         *)
(* write-back block cache that maps byte-granular read / write / seek /    *)
(* flush onto a BlockDevice<SIZE>.                                         *)
(*                                                                         *)
(* Every public operation of BufStream is one action.  The read and write  *)
(* loops are computed by recursive operators over a record `m` holding the *)
(* stream's fields, the device contents and the log of device calls made   *)
(* by the running operation.                                               *)
(***************************************************************************)
EXTENDS Integers, Sequences, FiniteSets, TLC

\* ------------------------------------------------------------------ sizes
\* const SIZE of BufStream<T, SIZE>: bytes per block.
SIZE == 2
\* BufStream::ALIGN: alignment of the internal buffer.
ALIGN == 2
\* u32::MAX, the largest block address and the initial value of
\* current_block ("no block cached").  Block addresses are 3 bits wide in
\* the model instead of 32.
U32MAX == 7
\* The modulus of the u64 cursor.  The cursor is 6 bits wide in the model
\* instead of 64, so that, as in the program, there are cursors whose block
\* index does not fit a block address.
U64MOD == 64

\* Number of blocks of the modelled device.
NumBlocks == 2
\* Largest byte value a caller writes (the device starts as all zero).
MaxByte == 1
\* Longest caller buffer passed to read or write.
MaxLen == 4

DevLen == NumBlocks * SIZE
Byte == 0..MaxByte
Min(a, b) == IF a < b THEN a ELSE b

VARIABLES
    dev,             \* inner device: byte contents, index 0..DevLen-1
    buffer,          \* BufStream.buffer, index 0..SIZE-1
    current_block,   \* BufStream.current_block (u32)
    current_offset,  \* BufStream.current_offset (u64)
    dirty,           \* BufStream.dirty
    panicked,        \* an operation panicked: the stream is gone
    oracle,          \* byte-addressable oracle the same seeks/writes went to
    noErr,           \* no operation has failed so far
    last,            \* the observed operation: what it was given and what it did
    rt,              \* progress of a write / flush / seek back / read round trip
    slice,           \* StreamSlice: start_offset, current_offset, size
    inner,           \* the stream a StreamSlice wraps: position and bytes
    build,           \* the build: width of usize, overflow checks on or off
    card,            \* SdSpi.card: <<>> for None, <<c>> for Some(c)
    sdcard,          \* the SD card on the bus: its blocks and capacity class
    poll,            \* a polling loop of SdSpi raced against a delay
    applied          \* a function of the crates applied to an input

vars == <<dev, buffer, current_block, current_offset, dirty, panicked,
          oracle, noErr, last, rt, slice, inner, build, card, sdcard,
          poll, applied>>
\* The variables of BufStream and its device, and those of StreamSlice.
bufVars == <<dev, buffer, current_block, current_offset, dirty, oracle, noErr, rt>>
sliceVars == <<slice, inner, build>>
sdVars == <<card, sdcard>>
auxVars == <<poll, applied>>

\* ------------------------------------------------------- the inner device
\* Bytes of n blocks starting at block, as a sequence.
DevBlocks(d, block, n) == [i \in 1..(n * SIZE) |-> d[block * SIZE + i - 1]]

\* The device with the byte sequence data stored from block on.
DevStore(d, block, data) ==
    [i \in DOMAIN d |->
        IF i >= block * SIZE /\ i < block * SIZE + Len(data)
        THEN data[i - block * SIZE + 1] ELSE d[i]]

\* A device call fails when it is the call chosen to fail (m.failAt counts the
\* calls of the running operation) or when it addresses blocks the device
\* does not have.
DevCallFails(m, block, n) ==
    \/ Len(m.calls) + 1 = m.failAt
    \/ block + n > NumBlocks

\* BlockDevice::read(block, data) with data of n blocks; the bytes read are
\* left in m.got.
DevRead(m, block, n, why) ==
    LET ok == ~DevCallFails(m, block, n)
        c  == [kind |-> "read", block |-> block, n |-> n, ok |-> ok, why |-> why,
               data |-> <<>>]
    IN [m EXCEPT !.calls = Append(@, c),
                 !.err = IF ok THEN "ok" ELSE "err",
                 !.got = IF ok THEN DevBlocks(m.dev, block, n) ELSE <<>>]

\* BlockDevice::write(block, data) with data a whole number of blocks.
DevWrite(m, block, data, why) ==
    LET n  == Len(data) \div SIZE
        ok == ~DevCallFails(m, block, n)
        c  == [kind |-> "write", block |-> block, n |-> n, ok |-> ok, why |-> why,
               data |-> data]
    IN [m EXCEPT !.calls = Append(@, c),
                 !.err = IF ok THEN "ok" ELSE "err",
                 !.dev = IF ok THEN DevStore(@, block, data) ELSE @]

\* ------------------------------------------------------------- BufStream
BufSeq(b) == [i \in 1..SIZE |-> b[i - 1]]

\* pointer_block_start: current_offset / SIZE converted to u32; the
\* conversion panics when the quotient does not fit.
pointer_block_start(off) == off \div SIZE
pointer_block_start_panics(off) == off \div SIZE > U32MAX
pointer_block_start_addr(off) == pointer_block_start(off) * SIZE

\* A flush that writes the buffer back but forgets to clear dirty.
flushKeepsDirty(m) ==
    IF m.dirty
    THEN DevWrite(m, m.current_block, BufSeq(m.buffer), "flush")
    ELSE [m EXCEPT !.err = "ok"]

\* BufStream::flush (the private one).
flush(m) ==
    IF m.dirty
    THEN DevWrite([m EXCEPT !.dirty = FALSE], m.current_block,
                  BufSeq(m.buffer), "flush")
    ELSE [m EXCEPT !.err = "ok"]

\* BufStream::check_cache, after the device read r of block block_start.
check_cache_fill(r, block_start) ==
    IF r.err # "ok" THEN r
    ELSE [r EXCEPT !.buffer = [i \in 0..(SIZE - 1) |-> r.got[i + 1]],
                   !.current_block = block_start]

\* BufStream::check_cache, after the flush f of the old block.
check_cache_load(f, block_start) ==
    IF f.err # "ok" THEN f
    ELSE check_cache_fill(DevRead(f, block_start, 1, "load"), block_start)

\* A check_cache that reads the block again on a hit.
check_cache_always(m) ==
    check_cache_load(flush(m), pointer_block_start(m.current_offset))

\* BufStream::check_cache.
check_cache(m) ==
    IF pointer_block_start(m.current_offset) # m.current_block
    THEN check_cache_load(flush(m), pointer_block_start(m.current_offset))
    ELSE [m EXCEPT !.err = "ok"]

\* A direct-mode test that only takes a buf of exactly one block.
DirectModeOneBlock(m, len, addr) ==
    /\ len = SIZE
    /\ addr % ALIGN = 0
    /\ m.current_offset % SIZE = 0

\* A direct-mode test that forgets that the cursor must be on a block
\* boundary.
DirectModeAnyCursor(m, len, addr) ==
    /\ len % SIZE = 0
    /\ addr % ALIGN = 0

\* A direct-mode test that forgets the length of buf.
DirectModeAnyLen(m, len, addr) ==
    /\ addr % ALIGN = 0
    /\ m.current_offset % SIZE = 0

\* A direct-mode test that forgets the alignment of buf.
DirectModeAnyAddr(m, len, addr) ==
    /\ len % SIZE = 0
    /\ m.current_offset % SIZE = 0

\* The direct-mode test made by each iteration of read and write.
\* len is buf.len() and addr the address of buf modulo ALIGN.
DirectMode(m, len, addr) ==
    /\ len % SIZE = 0
    /\ addr % ALIGN = 0
    /\ m.current_offset % SIZE = 0

\* One machine record for a starting operation.
Machine(failAt) ==
    [dev |-> dev, buffer |-> buffer, current_block |-> current_block,
     current_offset |-> current_offset, dirty |-> dirty,
     calls |-> <<>>, failAt |-> failAt, err |-> "ok", got |-> <<>>,
     out |-> <<>>, total |-> 0, modes |-> <<>>]

\* The end of an iteration of read or write: the cursor and the total
\* advance by the bytes the iteration transferred.
Advance(m, bytes) ==
    [m EXCEPT !.current_offset = @ + bytes, !.total = @ + bytes]

\* BufStream::read, direct branch, after the device read r into buf.
ReadDirect(r, len) ==
    IF r.err # "ok" THEN r
    ELSE Advance([r EXCEPT !.out = @ \o r.got,
                           !.modes = Append(@, "direct")], len)

\* A cached read that copies one byte per iteration.
ReadCopyOneByte(c, block_start, len) ==
    LET buffer_offset == c.current_offset - block_start
        bytes_read == Min(1, len)
    IN Advance([c EXCEPT !.out = @ \o [i \in 1..bytes_read |->
                                          c.buffer[buffer_offset + i - 1]],
                         !.modes = Append(@, "cached")], bytes_read)

\* BufStream::read, cached branch: the copy out of the buffer of the
\* machine c that check_cache left.
ReadCopy(c, block_start, len) ==
    LET buffer_offset == c.current_offset - block_start
        end == Min(buffer_offset + len, SIZE)
        bytes_read == end - buffer_offset
    IN Advance([c EXCEPT !.out = @ \o [i \in 1..bytes_read |->
                                          c.buffer[buffer_offset + i - 1]],
                         !.modes = Append(@, "cached")], bytes_read)

\* The loop of BufStream::read; len and addr describe what is left of buf,
\* target is the length of the whole buf and start its address.
RECURSIVE ReadLoop(_, _, _, _)
ReadNext(n, target, start) ==
    IF n.err # "ok" \/ n.total = target THEN n
    ELSE ReadLoop(n, target - n.total, start + n.total, target)

ReadCached(c, block_start, len) ==
    IF c.err # "ok" THEN c ELSE ReadCopy(c, block_start, len)

ReadLoop(m, len, addr, target) ==
    IF pointer_block_start_panics(m.current_offset)
    THEN [m EXCEPT !.err = "panic"]
    ELSE IF DirectMode(m, len, addr)
    THEN ReadNext(ReadDirect(DevRead(m, pointer_block_start(m.current_offset),
                                     len \div SIZE, "direct"), len),
                  target, addr - m.total)
    ELSE ReadNext(ReadCached(check_cache(m),
                             pointer_block_start_addr(m.current_offset), len),
                  target, addr - m.total)

\* BufStream::write, direct branch, after the device write r of buf.
WriteDirect(r, len) ==
    IF r.err # "ok" THEN r
    ELSE Advance([r EXCEPT !.modes = Append(@, "direct")], len)

\* A cached write that copies into the buffer without marking it dirty.
WriteCopyClean(c, buffer_offset, end, buf) ==
    [c EXCEPT !.buffer = [i \in 0..(SIZE - 1) |->
                            IF i >= buffer_offset /\ i < end
                            THEN buf[i - buffer_offset + 1] ELSE @[i]],
              !.modes = Append(@, "cached")]

\* BufStream::write, cached branch: the copy into the buffer of the machine
\* c that check_cache left; the buffer becomes dirty.
WriteCopy(c, buffer_offset, end, buf) ==
    [c EXCEPT !.buffer = [i \in 0..(SIZE - 1) |->
                            IF i >= buffer_offset /\ i < end
                            THEN buf[i - buffer_offset + 1] ELSE @[i]],
              !.dirty = TRUE,
              !.modes = Append(@, "cached")]

\* BufStream::write, cached branch, after the flush f (if any) of a block
\* filled to its end.  WriteFlushedAnyway moves the cursor although the
\* flush failed.
WriteFlushedAnyway(f, bytes_written) == Advance(f, bytes_written)
WriteFlushed(f, bytes_written) ==
    IF f.err # "ok" THEN f ELSE Advance(f, bytes_written)

\* A cached write that leaves a filled block in the buffer.
WriteCachedLazy(c, block_start, buf) ==
    IF c.err # "ok" THEN c
    ELSE WriteFlushed(WriteCopy(c, c.current_offset - block_start,
                                Min(c.current_offset - block_start + Len(buf), SIZE), buf),
                      Min(c.current_offset - block_start + Len(buf), SIZE)
                          - (c.current_offset - block_start))

WriteCached(c, block_start, buf) ==
    IF c.err # "ok" THEN c
    ELSE LET buffer_offset == c.current_offset - block_start
             end == Min(buffer_offset + Len(buf), SIZE)
             bytes_written == end - buffer_offset
             block_end == block_start + SIZE
         IN WriteFlushed(IF block_start + end = block_end
                         THEN flush(WriteCopy(c, buffer_offset, end, buf))
                         ELSE WriteCopy(c, buffer_offset, end, buf),
                         bytes_written)

\* The loop of BufStream::write; buf is what is left of the caller's bytes,
\* whole the caller's whole buf and start its address.
RECURSIVE WriteLoop(_, _, _, _)
WriteNext(n, whole, start) ==
    IF n.err # "ok" \/ n.total = Len(whole) THEN n
    ELSE WriteLoop(n, SubSeq(whole, n.total + 1, Len(whole)), start + n.total, whole)

WriteLoop(m, buf, addr, whole) ==
    IF pointer_block_start_panics(m.current_offset)
    THEN [m EXCEPT !.err = "panic"]
    ELSE IF DirectMode(m, Len(buf), addr)
    THEN WriteNext(WriteDirect(DevWrite(m, pointer_block_start(m.current_offset),
                                        buf, "direct"), Len(buf)),
                   whole, addr - m.total)
    ELSE WriteNext(WriteCached(check_cache(m),
                               pointer_block_start_addr(m.current_offset), buf),
                   whole, addr - m.total)

\* ------------------------------------------------------------ the oracle
\* The oracle array with data stored from byte offset off on.
OracleStore(o, off, data) ==
    [i \in DOMAIN o |->
        IF i >= off /\ i < off + Len(data) THEN data[i - off + 1] ELSE o[i]]

\* Bytes [off, off + len) of a byte array a, as a sequence.
Bytes(a, off, len) == [i \in 1..len |-> a[off + i - 1]]

Zeroes(n) == [i \in 0..(n - 1) |-> 0]

\* ---------------------------------------------------------------- inputs
\* The caller's bytes for a write of len bytes: v, v+1, ... modulo the
\* number of byte values, so that a misplaced byte shows.
Payload(v, len) == [i \in 1..len |-> (v + i - 1) % (MaxByte + 1)]

\* Latest device call of an operation that may be chosen to fail.
MaxFail == 1

\* Offsets given to SeekFrom::Start: the device, its end, and the offsets
\* whose block index is u32::MAX.
SeekStarts == 0..DevLen \cup {U32MAX * SIZE, U32MAX * SIZE + 1}
\* Offsets given to SeekFrom::Current and SeekFrom::End.
SeekDeltas == {-1, 1}
\* Cursor values a relative seek may produce in the model; the last one is
\* what SeekFrom::Current(-1) wraps to at cursor 0.
SeekTargets == 0..DevLen \cup {U64MOD - 1}

\* A run of the model is a sequence of operations of which the last one is
\* observed: `last` then holds its arguments, its result, the device calls it
\* made and the stream's fields before it.  Until then `last` is NoOp.  A
\* run may instead end with an observed round trip (see rt).
NoPre == [buffer |-> Zeroes(SIZE), current_block |-> 0, dirty |-> FALSE,
          dev |-> Zeroes(DevLen), oracle |-> Zeroes(DevLen)]
NoOp == [op |-> "none", res |-> "ok", n |-> 0, calls |-> <<>>, modes |-> <<>>,
         data |-> <<>>, off |-> 0, len |-> 0, addr |-> 0, whence |-> "none",
         x |-> 0, pre |-> NoPre]
NoTrip == [phase |-> 0, off |-> 0, data |-> <<>>]
\* No StreamSlice exists (a run of BufStream alone).
NoSlice == [start_offset |-> 0, current_offset |-> 0, size |-> 0]
NoInner == [pos |-> 0, data |-> <<>>]
NoBuild == [usize_mod |-> U64MOD, overflow_checks |-> FALSE]
SliceIdle == slice = NoSlice /\ inner = NoInner /\ build = NoBuild
\* No SdSpi exists.
SdIdle == card = <<>> /\ sdcard = [mem |-> <<>>, ccs |-> FALSE]
\* No polling loop runs and no function was applied.
NoPoll == [pc |-> "none"]
NoApplied == [fn |-> "none"]
AuxIdle == poll = NoPoll /\ applied = NoApplied

Pre == [buffer |-> buffer, current_block |-> current_block, dirty |-> dirty,
        dev |-> dev, oracle |-> oracle]

Init ==
    /\ dev = Zeroes(DevLen)
    /\ buffer = Zeroes(SIZE)
    /\ current_block = U32MAX
    /\ current_offset = 0
    /\ dirty = FALSE
    /\ panicked = FALSE
    /\ oracle = Zeroes(DevLen)
    /\ noErr = TRUE
    /\ last = NoOp
    /\ rt = NoTrip
    /\ SliceIdle
    /\ SdIdle
    /\ AuxIdle

\* An operation can start: the stream exists and no operation was observed.
Live == ~panicked /\ last.op = "none"

\* The stream and device fields after an operation that ran to machine m.
\* The oracle is defined for runs without failures only.
Commit(m, orc) ==
    /\ dev' = m.dev
    /\ buffer' = m.buffer
    /\ current_block' = m.current_block
    /\ current_offset' = m.current_offset
    /\ dirty' = m.dirty
    /\ panicked' = (m.err = "panic")
    /\ noErr' = (noErr /\ m.err = "ok")
    /\ oracle' = IF noErr /\ m.err = "ok" THEN orc ELSE Zeroes(DevLen)

\* <BufStream as Read>::read(buf), buf of len bytes at address addr mod ALIGN.
Read(len, addr, failAt, observe) ==
    /\ Live
    /\ rt.phase \in {0, 3}
    /\ rt.phase = 3 => len = Len(rt.data) /\ failAt = 0 /\ observe
    /\ \E m \in {ReadLoop(Machine(failAt), len, addr, len)} :
       /\ Commit(m, oracle)
       /\ last' = IF observe
                  THEN [NoOp EXCEPT !.op = "read", !.res = m.err, !.n = m.total,
                                    !.calls = m.calls, !.modes = m.modes,
                                    !.data = m.out, !.off = current_offset,
                                    !.len = len, !.addr = addr, !.pre = Pre]
                  ELSE NoOp
       /\ rt' = IF rt.phase = 3 THEN [rt EXCEPT !.phase = 4] ELSE NoTrip

\* <BufStream as Write>::write(buf), buf = Payload(v, len) at address addr.
\* trip: the write starts an observed round trip.
Write(len, v, addr, failAt, observe, trip) ==
    /\ Live
    /\ rt.phase = 0
    /\ \E buf \in {Payload(v, len)} :
       \E m \in {WriteLoop(Machine(failAt), buf, addr, buf)} :
       /\ Commit(m, OracleStore(oracle, current_offset, SubSeq(buf, 1, m.total)))
       /\ trip => ~observe /\ m.err = "ok" /\ len > 0
       /\ last' = IF observe
                  THEN [NoOp EXCEPT !.op = "write", !.res = m.err, !.n = m.total,
                                    !.calls = m.calls, !.modes = m.modes,
                                    !.data = buf, !.off = current_offset,
                                    !.len = len, !.addr = addr, !.pre = Pre]
                  ELSE NoOp
       /\ rt' = IF trip THEN [phase |-> 1, off |-> current_offset, data |-> buf]
                ELSE NoTrip

\* <BufStream as Write>::flush().
Flush(failAt, observe) ==
    /\ Live
    /\ rt.phase \in {0, 1}
    /\ rt.phase = 1 => failAt = 0 /\ ~observe
    /\ \E m \in {flush(Machine(failAt))} :
       /\ Commit(m, oracle)
       /\ last' = IF observe
                  THEN [NoOp EXCEPT !.op = "flush", !.res = m.err,
                                    !.calls = m.calls, !.off = current_offset,
                                    !.pre = Pre]
                  ELSE NoOp
       /\ rt' = IF rt.phase = 1 THEN [rt EXCEPT !.phase = 2] ELSE NoTrip

\* The cursor a seek computes; the i64 arithmetic is cast back to u64.
SeekTarget(whence, x) ==
    CASE whence = "Start"   -> x
      [] whence = "End"     -> (DevLen - x) % U64MOD
      [] whence = "Current" -> (current_offset + x) % U64MOD

\* A seek that also writes a dirty buffer back, as many buffered streams do.
SeekFlushes(whence, x, sizeFails, observe) ==
    /\ Live
    /\ rt.phase \in {0, 2}
    /\ rt.phase = 2 => whence = "Start" /\ x = rt.off /\ ~observe
    /\ SeekTarget(whence, x) \in SeekTargets \cup SeekStarts
    /\ LET fails == whence = "End" /\ sizeFails
           target == IF fails THEN current_offset ELSE SeekTarget(whence, x) IN
       /\ current_offset' = target
       /\ noErr' = (noErr /\ ~fails)
       /\ oracle' = IF noErr /\ ~fails THEN oracle ELSE Zeroes(DevLen)
       /\ last' = IF observe
                  THEN [NoOp EXCEPT !.op = "seek",
                                    !.res = IF fails THEN "err" ELSE "ok",
                                    !.n = target, !.off = current_offset,
                                    !.whence = whence, !.x = x, !.pre = Pre,
                                    !.calls = IF whence = "End"
                                         THEN <<[kind |-> "size", block |-> 0, n |-> 0,
                                                 ok |-> ~fails, why |-> "seek",
                                                 data |-> <<>>]>>
                                         ELSE <<>>]
                  ELSE NoOp
       /\ rt' = IF rt.phase = 2 THEN [rt EXCEPT !.phase = 3] ELSE NoTrip
       /\ dev' = flush(Machine(0)).dev
       /\ dirty' = FALSE
       /\ UNCHANGED <<buffer, current_block, panicked>>

\* <BufStream as Seek>::seek(pos); sizeFails: the device's size() fails.
Seek(whence, x, sizeFails, observe) ==
    /\ Live
    /\ rt.phase \in {0, 2}
    /\ rt.phase = 2 => whence = "Start" /\ x = rt.off /\ ~observe
    /\ SeekTarget(whence, x) \in SeekTargets \cup SeekStarts
    /\ LET fails == whence = "End" /\ sizeFails
           target == IF fails THEN current_offset ELSE SeekTarget(whence, x) IN
       /\ current_offset' = target
       /\ noErr' = (noErr /\ ~fails)
       /\ oracle' = IF noErr /\ ~fails THEN oracle ELSE Zeroes(DevLen)
       /\ last' = IF observe
                  THEN [NoOp EXCEPT !.op = "seek",
                                    !.res = IF fails THEN "err" ELSE "ok",
                                    !.n = target, !.off = current_offset,
                                    !.whence = whence, !.x = x, !.pre = Pre,
                                    !.calls = IF whence = "End"
                                         THEN <<[kind |-> "size", block |-> 0, n |-> 0,
                                                 ok |-> ~fails, why |-> "seek",
                                                 data |-> <<>>]>>
                                         ELSE <<>>]
                  ELSE NoOp
       /\ rt' = IF rt.phase = 2 THEN [rt EXCEPT !.phase = 3] ELSE NoTrip
       /\ UNCHANGED <<dev, buffer, current_block, dirty, panicked>>

ReadStep ==
    /\ \E len \in 0..MaxLen, addr \in 0..(ALIGN - 1), failAt \in 0..MaxFail,
          observe \in BOOLEAN : Read(len, addr, failAt, observe)
    /\ UNCHANGED <<sliceVars, sdVars, auxVars>>
WriteStep ==
    /\ \E len \in 0..MaxLen, v \in Byte, addr \in 0..(ALIGN - 1),
          failAt \in 0..MaxFail, observe \in BOOLEAN :
             Write(len, v, addr, failAt, observe, FALSE)
    /\ UNCHANGED <<sliceVars, sdVars, auxVars>>
TripStep ==
    /\ \E len \in 1..MaxLen, v \in Byte, addr \in 0..(ALIGN - 1) :
             Write(len, v, addr, 0, FALSE, TRUE)
    /\ UNCHANGED <<sliceVars, sdVars, auxVars>>
FlushStep ==
    /\ \E failAt \in 0..1, observe \in BOOLEAN : Flush(failAt, observe)
    /\ UNCHANGED <<sliceVars, sdVars, auxVars>>
SeekStart ==
    /\ \E x \in SeekStarts, observe \in BOOLEAN : Seek("Start", x, FALSE, observe)
    /\ UNCHANGED <<sliceVars, sdVars, auxVars>>
SeekCurrent ==
    /\ \E x \in SeekDeltas, observe \in BOOLEAN : Seek("Current", x, FALSE, observe)
    /\ UNCHANGED <<sliceVars, sdVars, auxVars>>
SeekEnd ==
    /\ \E x \in SeekDeltas, sizeFails \in BOOLEAN, observe \in BOOLEAN :
             Seek("End", x, sizeFails, observe)
    /\ UNCHANGED <<sliceVars, sdVars, auxVars>>

Next == ReadStep \/ WriteStep \/ TripStep \/ FlushStep
        \/ SeekStart \/ SeekCurrent \/ SeekEnd

Spec == Init /\ [][Next]_vars

TypeOK ==
    /\ dev \in [0..(DevLen - 1) -> Byte]
    /\ buffer \in [0..(SIZE - 1) -> Byte]
    /\ current_block \in 0..U32MAX
    /\ current_offset \in 0..(U64MOD - 1)
    /\ dirty \in BOOLEAN


\* ============================================================== StreamSlice
\* (block-device-adapters/src/stream_slice.rs)  A window [start_offset,
\* start_offset + size) over a wrapped stream `inner`, with its own cursor.

\* The modulus of a 32-bit usize.  It is 2 bits wide in the model instead of
\* 32, so that, as on a 32-bit target, a u64 length can exceed it.
USIZE32MOD == 4
\* Number of bytes the wrapped stream holds.
InnerLen == 5
\* Largest start_offset a StreamSlice is created with.
MaxStart == 1
\* Longest caller buffer passed to a StreamSlice read or write.
MaxSliceLen == 3

\* Sizes (end_offset - start_offset) a StreamSlice is created with: empty,
\* short, as wide as a 32-bit usize counts, and reaching past the bytes the
\* wrapped stream holds.
SliceSizes == {0, 1, 2, USIZE32MOD, InnerLen}
\* Builds: usize as wide as u32 or as u64; arithmetic overflow panics (debug
\* assertions) or wraps.
Builds == [usize_mod : {USIZE32MOD, U64MOD}, overflow_checks : BOOLEAN]

\* `v as i64` of a u64, and whether an i64 sum overflowed.
AsI64(v) == IF (v % U64MOD) >= (U64MOD \div 2) THEN (v % U64MOD) - U64MOD ELSE v % U64MOD
I64Overflows(v) == v < 0 - (U64MOD \div 2) \/ v >= (U64MOD \div 2)
\* `v as usize` of a u64.
AsUsize(v) == v % build.usize_mod

\* The wrapped stream is any Read + Write + Seek.  A read returns 0 only for
\* an empty buffer or at the end of the stream, a write returns 0 only for an
\* empty buffer and fails when the stream cannot take a byte; either may
\* transfer fewer bytes than asked.  A failing call changes nothing.
InnerReadCounts(s, n) ==
    IF n = 0 \/ s.pos >= InnerLen THEN {0} ELSE 1..Min(n, InnerLen - s.pos)
InnerWriteCounts(s, n) ==
    IF n = 0 THEN {0}
    ELSE IF s.pos >= InnerLen THEN {} ELSE 1..Min(n, InnerLen - s.pos)
InnerStore(s, buf, k) ==
    [pos |-> s.pos + k,
     data |-> [i \in 0..(InnerLen - 1) |->
                 IF i >= s.pos /\ i < s.pos + k THEN buf[i - s.pos + 1]
                 ELSE s.data[i]]]

\* The observed StreamSlice operation: arguments, result, the length handed
\* to the wrapped stream (passed), the value an InvalidSeek carries
\* (payload), and the slice and wrapped stream before the call.
NoSliceOp == [op |-> "none", res |-> "ok", n |-> 0, len |-> 0, x |-> 0,
              whence |-> "none", passed |-> 0, payload |-> 0,
              pre |-> [slice |-> NoSlice, inner |-> NoInner]]
SlicePre == [slice |-> slice, inner |-> inner]

\* BufStream is not part of a run of StreamSlice.
BufIdle ==
    /\ dev = Zeroes(DevLen) /\ buffer = Zeroes(SIZE) /\ current_block = U32MAX
    /\ current_offset = 0 /\ dirty = FALSE /\ oracle = Zeroes(DevLen)
    /\ noErr = TRUE /\ rt = NoTrip

\* StreamSlice::new(inner, start_offset, end_offset) succeeded.
SliceInit ==
    /\ BufIdle
    /\ panicked = FALSE
    /\ SdIdle
    /\ AuxIdle
    /\ last = NoSliceOp
    /\ build \in Builds
    /\ slice \in [start_offset : 0..MaxStart, current_offset : {0}, size : SliceSizes]
    /\ inner = [pos |-> slice.start_offset, data |-> Zeroes(InnerLen)]

\* What an operation leaves behind: the observation, if it is observed.
SliceObserve(observe, rec) ==
    /\ last' = IF observe THEN [rec EXCEPT !.pre = SlicePre] ELSE last
    /\ panicked' = (rec.res = "panic")
    /\ UNCHANGED <<build, bufVars, sdVars, auxVars>>

\* <StreamSlice as Read>::read(buf), buf of len bytes; the wrapped stream
\* returns k bytes, or fails.
SliceRead(len, k, fails, observe) ==
    /\ Live
    /\ \E max_read_size \in {Min(AsUsize(slice.size - slice.current_offset), len)} :
       /\ k \in IF fails THEN {0} ELSE InnerReadCounts(inner, max_read_size)
       /\ slice' = [slice EXCEPT !.current_offset = @ + k]
       /\ inner' = [inner EXCEPT !.pos = @ + k]
       /\ SliceObserve(observe,
              [NoSliceOp EXCEPT !.op = "slice_read",
                                !.res = IF fails THEN "Other" ELSE "ok",
                                !.n = k, !.len = len, !.passed = max_read_size])

\* <StreamSlice as Write>::write(buf), buf = Payload(v, len); the wrapped
\* stream accepts k bytes, or fails.
SliceWrite(len, v, k, fails, observe) ==
    /\ Live
    /\ \E max_write_size \in {Min(AsUsize(slice.size - slice.current_offset), len)} :
       \E counts \in {InnerWriteCounts(inner, max_write_size)} :
       \E res \in {IF fails \/ counts = {} THEN "Other"
                   ELSE IF k = 0 THEN "WriteZero" ELSE "ok"} :
       /\ k \in IF res = "Other" THEN {0} ELSE counts
       /\ slice' = [slice EXCEPT !.current_offset = @ + k]
       /\ inner' = InnerStore(inner, Payload(v, len), k)
       /\ SliceObserve(observe,
              [NoSliceOp EXCEPT !.op = "slice_write", !.res = res, !.n = k,
                                !.len = len, !.x = v, !.passed = max_write_size])

\* <StreamSlice as Write>::flush().
SliceFlush(fails, observe) ==
    /\ Live
    /\ UNCHANGED <<slice, inner>>
    /\ SliceObserve(observe,
           [NoSliceOp EXCEPT !.op = "slice_flush",
                             !.res = IF fails THEN "Other" ELSE "ok"])

\* The i64 sum of line 99-103 before any wrapping.
SliceSeekSum(whence, x) ==
    CASE whence = "Current" -> AsI64(slice.current_offset) + x
      [] whence = "Start"   -> AsI64(x)
      [] whence = "End"     -> AsI64(slice.size) + x

\* The position the wrapped stream is sent to (line 108); and the same
\* without the window's start.
SliceSeekInnerNoStart(new_offset) == new_offset
SliceSeekInner(new_offset) == slice.start_offset + new_offset

\* <StreamSlice as Seek>::seek(pos); fails: the wrapped stream's seek fails.
SliceSeek(whence, x, fails, observe) ==
    /\ Live
    /\ \E new_offset \in {AsI64(SliceSeekSum(whence, x))} :
       \E res \in {IF I64Overflows(SliceSeekSum(whence, x)) /\ build.overflow_checks
                   THEN "panic"
                   ELSE IF new_offset < 0 \/ new_offset > slice.size
                   THEN "InvalidSeek"
                   ELSE IF fails THEN "Other" ELSE "ok"} :
       /\ res # "ok" => ~fails \/ res = "Other"
       /\ slice' = IF res = "ok" THEN [slice EXCEPT !.current_offset = new_offset]
                   ELSE slice
       /\ inner' = IF res = "ok"
                   THEN [inner EXCEPT !.pos = SliceSeekInner(new_offset)]
                   ELSE inner
       /\ SliceObserve(observe,
              [NoSliceOp EXCEPT !.op = "slice_seek", !.res = res,
                                !.n = IF res = "ok" THEN new_offset ELSE 0,
                                !.x = x, !.whence = whence,
                                !.payload = new_offset])

\* Arguments of the seeks: offsets around the window and the extremes of
\* u64 and i64.
SliceSeekStarts == 0..(InnerLen + 1) \cup {(U64MOD \div 2), U64MOD - 1}
SliceSeekDeltas == {0 - (U64MOD \div 2), -2, -1, 0, 1, (U64MOD \div 2) - 1}

SliceReadStep ==
    \E len \in 0..MaxSliceLen, k \in 0..MaxSliceLen, fails \in BOOLEAN,
       observe \in BOOLEAN : SliceRead(len, k, fails, observe)
SliceWriteStep ==
    \E len \in 0..MaxSliceLen, v \in Byte, k \in 0..MaxSliceLen, fails \in BOOLEAN,
       observe \in BOOLEAN : SliceWrite(len, v, k, fails, observe)
SliceFlushStep == \E fails \in BOOLEAN, observe \in BOOLEAN : SliceFlush(fails, observe)
SliceSeekStart ==
    \E x \in SliceSeekStarts, fails \in BOOLEAN, observe \in BOOLEAN :
        SliceSeek("Start", x, fails, observe)
SliceSeekCurrent ==
    \E x \in SliceSeekDeltas, fails \in BOOLEAN, observe \in BOOLEAN :
        SliceSeek("Current", x, fails, observe)
SliceSeekEnd ==
    \E x \in SliceSeekDeltas, fails \in BOOLEAN, observe \in BOOLEAN :
        SliceSeek("End", x, fails, observe)

SliceNext == SliceReadStep \/ SliceWriteStep \/ SliceFlushStep
             \/ SliceSeekStart \/ SliceSeekCurrent \/ SliceSeekEnd

SliceSpec == SliceInit /\ [][SliceNext]_vars

\* ==================================================================== SdSpi
\* (sdspi/src/lib.rs)  An SD card driven over SPI.  Every public operation
\* is one action; what it puts on the bus and what the card answers is kept
\* as a log of SPI transfers.
R1_READY_STATE == 0
R1_IDLE_STATE == 1
R1_ILLEGAL_COMMAND == 4
DATA_START_BLOCK == 254
STOP_TRAN_TOKEN == 253
WRITE_MULTIPLE_TOKEN == 252
DATA_RES_MASK == 31
DATA_RES_ACCEPTED == 5

\* Blocks of the modelled card.
SdBlocks == 2
\* Most blocks one read or write call is given.
MaxSdLen == 2
\* The SPI transfers of a call at which the card or the bus can deviate from
\* its usual answer (a successful init takes 31 transfers).
MaxStep == 33
\* Bytes of a CSD or CID register.
REG_LEN == 16

\* a ^ b on naturals.
RECURSIVE Xor(_, _)
Xor(a, b) ==
    IF a = 0 THEN b
    ELSE IF b = 0 THEN a
    ELSE 2 * Xor(a \div 2, b \div 2) + ((a + b) % 2)

\* (The tests crc > 255 and crc > 65535 below never hold: crc is a u8 or a
\* u16.)
\* One round of crc7 for bit `bit` (7 = first) of byte d, on the u8 crc.
crc7_shift(crc, d, bit) ==
    IF ((d \div (2 ^ bit)) % 2) # ((((crc * 2) % 256) \div 128) % 2)
    THEN Xor((crc * 2) % 256, 9)
    ELSE (crc * 2) % 256
RECURSIVE crc7_byte(_, _, _)
crc7_byte(crc, d, bit) ==
    IF bit < 0 \/ crc > 255 THEN crc
    ELSE crc7_byte(crc7_shift(crc, d, bit), d, bit - 1)
RECURSIVE crc7_fold(_, _, _)
crc7_fold(crc, data, i) ==
    IF i > Len(data) \/ crc > 255 THEN crc
    ELSE crc7_fold(crc7_byte(crc, data[i], 7), data, i + 1)
\* crc7_even leaves out the | 1.
crc7_even(data) == (crc7_fold(0, data, 1) * 2) % 256
\* fn crc7(data): (crc << 1) | 1 on a u8.
crc7(data) == ((crc7_fold(0, data, 1) * 2) % 256) + 1

\* The five statements of the loop body of crc16, on the u16 crc.
crc16_swap(crc, byte) == Xor(((crc \div 256) % 256) + ((crc * 256) % 65536), byte)
crc16_a(crc) == Xor(crc, (crc % 256) \div 16)
crc16_b(crc) == Xor(crc, (crc * 4096) % 65536)
crc16_c(crc) == Xor(crc, (crc % 256) * 32)
RECURSIVE crc16_fold(_, _, _)
crc16_fold(crc, data, i) ==
    IF i > Len(data) \/ crc > 65535 THEN crc
    ELSE crc16_fold(crc16_c(crc16_b(crc16_a(crc16_swap(crc, data[i])))), data, i + 1)
\* fn crc16(data).
crc16(data) == crc16_fold(0, data, 1)
\* u16::to_be_bytes and u16::from_be_bytes.
to_be_bytes(v) == <<v \div 256, v % 256>>
from_be_bytes(b) == b[1] * 256 + b[2]

\* The 6 bytes of a command frame (cmd, line 353-361): 0x40 | cmd, the
\* argument big-endian, crc7 of these five.
FrameHead(c, arg) ==
    <<IF (c \div 64) % 2 = 1 THEN c ELSE c + 64, (arg \div 16777216) % 256,
      (arg \div 65536) % 256, (arg \div 256) % 256, arg % 256>>
Frame(c, arg) == Append(FrameHead(c, arg), crc7(FrameHead(c, arg)))

\* ------------------------------------------------- the card and the SPI bus
\* A deviation replaces what the bus or the card does at one SPI transfer of
\* a call: a byte in 0..255 is what the card answers there instead of its
\* usual answer, SPI_FAIL makes the transfer fail, TIMED_OUT lets the delay
\* of the enclosing with_timeout win at that transfer.
SPI_FAIL == 256
TIMED_OUT == 257
NO_DEVIATION == 258
DevBytes == {0, 1, 5, 255}
Deviations == [at : 0..MaxStep, as : DevBytes \cup {SPI_FAIL, TIMED_OUT}]
DevSets == {{}} \cup {{d} : d \in Deviations}
\* The same for a call that takes fewer than k SPI transfers.
DevSetsBefore(k) == {{}} \cup {{d} : d \in {e \in Deviations : e.at < k}}
Deviation(s) ==
    IF \E d \in s.devs : d.at = s.step
    THEN (CHOOSE d \in s.devs : d.at = s.step).as
    ELSE NO_DEVIATION

\* The R1 byte a card gives to a command: in idle state until ACMD41 ends.
CardR1(c) == IF c \in {0, 8, 59} THEN R1_IDLE_STATE ELSE R1_READY_STATE
\* The R7 tail of CMD8 (voltage accepted, check pattern echoed) and the OCR
\* of CMD58 (power-up done, bit 30 = CCS).
CardR7 == <<0, 0, 1, 170>>
CardOCR(ccs) == <<IF ccs THEN 192 ELSE 128, 255, 128, 0>>
\* The registers of the card: a version 2 CSD with C_SIZE = 1, and a CID.
CardCSD == [i \in 1..REG_LEN |-> IF i = 1 THEN 64 ELSE IF i = 10 THEN 1 ELSE 0]
CardCID == [i \in 1..REG_LEN |-> i]
\* The byte response to a data block: accepted.
CardDataResponse == 229
\* The blocks of a fresh card: block b holds b + 1, b + 2, ...
CardMem == [b \in 0..(SdBlocks - 1) |-> [i \in 1..SIZE |-> b + i]]

\* One transfer on the bus, as logged.
SdEvent(ev, why, c, arg, bytes, ok) ==
    [ev |-> ev, why |-> why, cmd |-> c, arg |-> arg, bytes |-> bytes, ok |-> ok]

\* What the card answers when `good` is its usual answer.
Corrupt(good, d) ==
    [i \in 1..Len(good) |-> IF i = 1 \/ i = Len(good) THEN d ELSE good[i]]

\* The running call: the driver's card field, the card, the transfers so
\* far, the error it ended with, the last bytes read (r), the blocks read.
SdMachine(devs) ==
    [card |-> card, mem |-> sdcard.mem, ccs |-> sdcard.ccs, waddr |-> 0 - 1,
     log |-> <<>>, step |-> 0, devs |-> devs, err |-> "ok", errv |-> <<>>,
     r |-> <<>>, out |-> <<>>, size |-> 0]

SdFail(s, err, errv) == [s EXCEPT !.err = err, !.errv = errv]

\* self.spi.write(bytes): d is the deviation at this transfer.
SpiWriteAs(s, d, timed, why, c, arg, bytes) ==
    IF d = SPI_FAIL
    THEN [s EXCEPT !.step = s.step + 1, !.err = "SpiError",
                   !.log = Append(s.log, SdEvent("write", why, c, arg, bytes, FALSE))]
    ELSE IF d = TIMED_OUT /\ timed
    THEN [s EXCEPT !.step = s.step + 1, !.err = "Timeout"]
    ELSE [s EXCEPT !.step = s.step + 1,
                   !.log = Append(s.log, SdEvent("write", why, c, arg, bytes, TRUE))]
SpiWrite(s, timed, why, c, arg, bytes) ==
    IF s.err # "ok" THEN s
    ELSE SpiWriteAs(s, Deviation(s), timed, why, c, arg, bytes)

\* self.spi.transfer_in_place(buf) with buf all 0xFF; the bytes read are r.
SpiReadAs(s, d, timed, why, good) ==
    IF d = SPI_FAIL
    THEN [s EXCEPT !.step = s.step + 1, !.err = "SpiError",
                   !.log = Append(s.log, SdEvent("read", why, 0, 0, <<>>, FALSE))]
    ELSE IF d = TIMED_OUT /\ timed
    THEN [s EXCEPT !.step = s.step + 1, !.err = "Timeout"]
    ELSE IF d \in 0..255
    THEN [s EXCEPT !.step = s.step + 1, !.r = Corrupt(good, d),
                   !.log = Append(s.log, SdEvent("read", why, 0, 0, Corrupt(good, d), TRUE))]
    ELSE [s EXCEPT !.step = s.step + 1, !.r = good,
                   !.log = Append(s.log, SdEvent("read", why, 0, 0, good, TRUE))]
SpiRead(s, timed, why, good) ==
    IF s.err # "ok" THEN s ELSE SpiReadAs(s, Deviation(s), timed, why, good)

\* read_byte().
read_byte(s, timed, why, good) == SpiRead(s, timed, why, <<good>>)

\* wait_idle(): read until 0xFF, at most 5000 ms.
RECURSIVE wait_idle(_)
wait_idle_next(t) == IF t.err # "ok" \/ t.r[1] = 255 THEN t ELSE wait_idle(t)
wait_idle(s) == IF s.err # "ok" THEN s ELSE wait_idle_next(read_byte(s, TRUE, "idle", 255))

\* The response loop of cmd (line 373-381): read until bit 7 is clear.
RECURSIVE cmd_response(_, _)
cmd_response_next(t, c) ==
    IF t.err # "ok" \/ t.r[1] < 128 THEN t ELSE cmd_response(t, c)
cmd_response(s, c) ==
    IF s.err # "ok" THEN s ELSE cmd_response_next(read_byte(s, TRUE, "r1", CardR1(c)), c)

\* The block a command argument addresses: a high-capacity card counts
\* blocks, a standard-capacity card bytes.
CardBlock(ccs, arg) == IF ccs THEN arg ELSE arg \div 512
\* The card takes a write command it answered with R1 = 0 as the address of
\* the blocks that follow.
CardAddressed(t, c, arg) ==
    IF t.err = "ok" /\ c \in {24, 25}
    THEN [t EXCEPT !.waddr = IF t.r[1] = R1_READY_STATE
                              THEN CardBlock(t.ccs, arg) ELSE 0 - 1]
    ELSE t

\* cmd(cmd); timed: inside a with_timeout of the caller.  cmd_stuff is the
\* stuff byte of line 366-371, cmd_stuff_none leaves it out.
cmd_stuff_none(s, timed, c) == s
cmd_stuff(s, timed, c) == IF c = 12 THEN SpiRead(s, timed, "stuff", <<255>>) ELSE s
\* cmd_idle_never sends the frame without waiting.
cmd_idle_never(s, c) == s
cmd_idle(s, c) == IF c # 0 THEN wait_idle(s) ELSE s
cmd(s, timed, c, arg) ==
    CardAddressed(
        cmd_response(
            cmd_stuff(SpiWrite(cmd_idle(s, c), timed, "cmd", c, arg, Frame(c, arg)),
                      timed, c),
            c),
        c, arg)

\* acmd(cmd): CMD55 with the card's rca (0) first.
acmd(s, timed, c, arg) == cmd(cmd(s, timed, 55, 0), timed, c, arg)

\* read_data(buffer) of a buffer of Len(good) bytes; `good` is what the card
\* holds.  The buffer is left in r.
RECURSIVE read_data_token(_)
read_data_token_next(t) ==
    IF t.err # "ok" \/ t.r[1] # 255 THEN t ELSE read_data_token(t)
read_data_token(s) ==
    IF s.err # "ok" THEN s
    ELSE read_data_token_next(read_byte(s, TRUE, "token", DATA_START_BLOCK))
\* read_data_started_any takes any byte other than 0xFF as the start of a
\* block.
read_data_started_any(t) == t
read_data_started(t) ==
    IF t.err = "ok" /\ t.r[1] # DATA_START_BLOCK
    THEN SdFail(t, "RegisterError", <<t.r[1]>>) ELSE t
\* read_data_crc_skip accepts whatever CRC bytes arrive.
read_data_crc_skip(p, c) == IF c.err # "ok" THEN c ELSE [c EXCEPT !.r = p.r]
read_data_crc(p, c) ==
    IF c.err # "ok" THEN c
    ELSE IF from_be_bytes(c.r) # crc16(p.r)
    THEN [SdFail(c, "CrcMismatch", <<from_be_bytes(c.r), crc16(p.r)>>) EXCEPT !.r = p.r]
    ELSE [c EXCEPT !.r = p.r]
read_data_payload(p, timed, good) ==
    read_data_crc(p, SpiRead(p, timed, "crc", to_be_bytes(crc16(good))))
read_data(s, timed, good) ==
    read_data_payload(
        SpiRead(read_data_started(read_data_token(s)), timed, "payload", good),
        timed, good)

\* The card stores a block it accepted, at the address of the write command.
CardStored(t, block) ==
    IF t.err = "ok" /\ (t.r[1] % (DATA_RES_MASK + 1)) = DATA_RES_ACCEPTED
       /\ t.waddr >= 0 /\ t.waddr < SdBlocks
    THEN [t EXCEPT !.mem[t.waddr] = block, !.waddr = t.waddr + 1]
    ELSE t
\* write_data(token, buffer).
write_data_status(t) ==
    IF t.err = "ok" /\ (t.r[1] % (DATA_RES_MASK + 1)) # DATA_RES_ACCEPTED
    THEN SdFail(t, "WriteError", <<>>) ELSE t
write_data_no_crc(s, token, block) ==
    write_data_status(
        CardStored(
            read_byte(
                SpiWrite(SpiWrite(s, FALSE, "token", 0, 0, <<token>>),
                         FALSE, "payload", 0, 0, block),
                FALSE, "resp", CardDataResponse),
            block))
write_data(s, token, block) ==
    write_data_status(
        CardStored(
            read_byte(
                SpiWrite(
                    SpiWrite(SpiWrite(s, FALSE, "token", 0, 0, <<token>>),
                             FALSE, "payload", 0, 0, block),
                    FALSE, "crc", 0, 0, to_be_bytes(crc16(block))),
                FALSE, "resp", CardDataResponse),
            block))

\* --------------------------------------------------------- SdSpi operations
\* OCR::is_busy(): the power-up bit (bit 31) is clear; and the CCS bit.
ocr_is_busy(ocr) == ocr[1] < 128
ocr_high_capacity(ocr) == (ocr[1] \div 64) % 2 = 1
\* Card::default() with the registers init read.  card_type keeps its
\* default.
NewCard(ocr, csd, cid) ==
    [card_type |-> "StandardCapacity", ocr |-> ocr, rca |-> 0, cid |-> cid, csd |-> csd]
\* CSD::block_count() of a version 2 CSD, and Card::size().
csd_block_count(csd) == (((csd[8] % 64) * 65536) + (csd[9] * 256) + csd[10] + 1) * 1024
card_size(c) == csd_block_count(c.csd) * 512

\* init, line 115-123: CMD0 until R1 = idle.
RECURSIVE init_idle(_)
init_idle_next(t) ==
    IF t.err # "ok" \/ t.r[1] = R1_IDLE_STATE THEN t ELSE init_idle(t)
init_idle(s) == IF s.err # "ok" THEN s ELSE init_idle_next(cmd(s, TRUE, 0, 0))

\* line 127-129: CMD59 with argument 1; and the same with argument 0.
init_crc_next(t) ==
    IF t.err = "ok" /\ t.r[1] # R1_IDLE_STATE THEN SdFail(t, "Cmd59Error", <<>>) ELSE t
init_crc_off(s) == init_crc_next(cmd(s, FALSE, 59, 0))
init_crc(s) == init_crc_next(cmd(s, FALSE, 59, 1))

\* line 131-147: CMD8 with argument 0x1AA until the check pattern comes back.
RECURSIVE init_if_cond(_)
init_if_cond_echo(t) ==
    IF t.err # "ok" \/ t.r[4] = 170 THEN t ELSE init_if_cond(t)
init_if_cond_next(t) ==
    IF t.err # "ok" THEN t
    ELSE IF t.r[1] = R1_ILLEGAL_COMMAND + R1_IDLE_STATE
    THEN SdFail(t, "UnsupportedCard", <<>>)
    ELSE init_if_cond_echo(SpiRead(t, TRUE, "r7", CardR7))
init_if_cond(s) == IF s.err # "ok" THEN s ELSE init_if_cond_next(cmd(s, TRUE, 8, 426))

\* line 155-163: ACMD41 with HCS, S18R and the voltage window, until ready.
RECURSIVE init_op_cond(_)
init_op_cond_next(t) ==
    IF t.err # "ok" \/ t.r[1] = R1_READY_STATE THEN t ELSE init_op_cond(t)
init_op_cond(s) ==
    IF s.err # "ok" THEN s
    ELSE init_op_cond_next(acmd(s, TRUE, 41, 1073741824 + 16777216 + 1048576))

\* line 166-183: CMD58 while the OCR says busy; the OCR is left in r.
RECURSIVE init_ocr(_)
init_ocr_busy(t) ==
    IF t.err # "ok" \/ ~ocr_is_busy(t.r) THEN t ELSE init_ocr(t)
\* init_ocr_next_any reads the OCR whatever R1 was.
init_ocr_next_any(t) ==
    IF t.err # "ok" THEN t
    ELSE init_ocr_busy(SpiRead(t, TRUE, "ocr", CardOCR(t.ccs)))
init_ocr_next(t) ==
    IF t.err # "ok" THEN t
    ELSE IF t.r[1] # R1_READY_STATE THEN SdFail(t, "Cmd58Error", <<>>)
    ELSE init_ocr_busy(SpiRead(t, TRUE, "ocr", CardOCR(t.ccs)))
init_ocr(s) == IF s.err # "ok" THEN s ELSE init_ocr_next(cmd(s, TRUE, 58, 0))

\* line 186-192 and 195-201: CMD9 / CMD10 and the 16-byte register.
init_register_next(t, good) ==
    IF t.err # "ok" THEN t
    ELSE IF t.r[1] # R1_READY_STATE THEN SdFail(t, "RegisterError", <<t.r[1]>>)
    ELSE read_data(t, FALSE, good)
init_register(s, c, good) == init_register_next(cmd(s, FALSE, c, 0), good)

\* line 206: self.card = Some(card), reached without an error only.
init_done(o, c, i) ==
    IF i.err # "ok" THEN i ELSE [i EXCEPT !.card = <<NewCard(o.r, c.r, i.r)>>]
init_cid(o, c) == init_done(o, c, init_register(c, 10, CardCID))
init_csd(o) == init_cid(o, init_register(o, 9, CardCSD))
init(s) == init_csd(init_ocr(init_op_cond(init_if_cond(init_crc(init_idle(s))))))

\* read(block_address, data) with data.len() = n.
RECURSIVE read_blocks(_, _, _, _)
read_block_next(t, block, i, n) ==
    IF t.err # "ok" THEN t
    ELSE read_blocks([t EXCEPT !.out = Append(t.out, t.r)], block, i + 1, n)
read_blocks(s, block, i, n) ==
    IF s.err # "ok" \/ i > n THEN s
    ELSE read_block_next(read_data(s, FALSE, s.mem[block + i - 1]),
                         block, i, n)
read(s, block_address, n) ==
    IF n = 1
    THEN read_blocks(cmd(s, FALSE, 17, block_address),
                     CardBlock(s.ccs, block_address), 1, 1)
    ELSE cmd(read_blocks(cmd(s, FALSE, 18, block_address),
                         CardBlock(s.ccs, block_address), 1, n),
             FALSE, 12, 0)

\* write(block_address, data).
write_single_status(t) ==
    IF t.err = "ok" /\ t.r[1] # 0 THEN SdFail(t, "WriteError", <<>>) ELSE t
write_single(s, block_address, data) ==
    write_single_status(
        read_byte(
            write_single_status(
                cmd(wait_idle(write_data(cmd(s, FALSE, 24, block_address),
                                         DATA_START_BLOCK, data[1])),
                    FALSE, 13, 0)),
            FALSE, "status", 0))
RECURSIVE write_blocks(_, _, _)
write_blocks(s, data, i) ==
    IF s.err # "ok" \/ i > Len(data) THEN s
    ELSE write_blocks(write_data(wait_idle(s), WRITE_MULTIPLE_TOKEN, data[i]),
                      data, i + 1)
write_multiple(s, block_address, data) ==
    SpiWrite(
        wait_idle(
            write_blocks(cmd(wait_idle(acmd(s, FALSE, 23, Len(data))),
                             FALSE, 25, block_address),
                         data, 1)),
        FALSE, "stop", 0, 0, <<STOP_TRAN_TOKEN>>)
write(s, block_address, data) ==
    IF Len(data) = 1 THEN write_single(s, block_address, data)
    ELSE write_multiple(s, block_address, data)

\* size().
size(s) ==
    IF s.card = <<>> THEN SdFail(s, "NotInitialized", <<>>)
    ELSE [s EXCEPT !.size = card_size(s.card[1])]

\* ------------------------------------------------------------ SdSpi actions
\* The observed SdSpi operation: arguments, result, transfers, the blocks
\* read, and the driver and card before the call.
NoSdOp == [op |-> "none", res |-> "ok", errv |-> <<>>, log |-> <<>>, addr |-> 0,
           n |-> 0, data |-> <<>>, out |-> <<>>, size |-> 0,
           pre |-> [card |-> <<>>, sdcard |-> [mem |-> CardMem, ccs |-> FALSE]]]
SdPre == [card |-> card, sdcard |-> sdcard]
\* The blocks a caller writes.
SdValues == {16}
SdPayload(v, n) == [i \in 1..n |-> [j \in 1..SIZE |-> v + 2 * i + j]]

\* SdSpi::new(spi, delay) on a card of either capacity class.
SdInitial ==
    /\ BufIdle
    /\ SliceIdle
    /\ AuxIdle
    /\ panicked = FALSE
    /\ last = NoSdOp
    /\ card = <<>>
    /\ sdcard \in [mem : {CardMem}, ccs : BOOLEAN]

\* What a call that ran to machine m leaves behind.
SdCommit(m, observe, rec) ==
    /\ card' = m.card
    /\ sdcard' = [sdcard EXCEPT !.mem = m.mem]
    /\ last' = IF observe
               THEN [rec EXCEPT !.res = m.err, !.errv = m.errv, !.log = m.log,
                                !.out = m.out, !.size = m.size, !.pre = SdPre]
               ELSE last
    /\ UNCHANGED <<panicked, bufVars, sliceVars, auxVars>>

SdInit(devs) ==
    /\ Live
    /\ \E m \in {init(SdMachine(devs))} : \E observe \in BOOLEAN :
          SdCommit(m, observe, [NoSdOp EXCEPT !.op = "sd_init"])

SdRead(block_address, n, devs) ==
    /\ Live
    /\ \E m \in {read(SdMachine(devs), block_address, n)} : \E observe \in BOOLEAN :
          SdCommit(m, observe,
                   [NoSdOp EXCEPT !.op = "sd_read", !.addr = block_address, !.n = n])

SdWrite(block_address, n, v, devs) ==
    /\ Live
    /\ \E m \in {write(SdMachine(devs), block_address, SdPayload(v, n))} :
       \E observe \in BOOLEAN :
          SdCommit(m, observe,
                   [NoSdOp EXCEPT !.op = "sd_write", !.addr = block_address,
                                  !.n = n, !.data = SdPayload(v, n)])

SdSize ==
    /\ Live
    /\ \E m \in {size(SdMachine({}))} : \E observe \in BOOLEAN :
          SdCommit(m, observe, [NoSdOp EXCEPT !.op = "sd_size"])

SdInitStep == \E devs \in DevSets : SdInit(devs)
\* A read of n blocks takes 7 + 3 * n transfers and a write at most
\* 12 + 5 * n when the card answers as usual, one or two more when it
\* deviates once.
SdReadStep ==
    \E n \in 0..MaxSdLen : \E devs \in DevSetsBefore(9 + 3 * n) :
        \E block_address \in 0..(SdBlocks - n) : SdRead(block_address, n, devs)
SdWriteStep ==
    \E n \in 0..MaxSdLen, v \in SdValues : \E devs \in DevSetsBefore(14 + 5 * n) :
        \E block_address \in 0..(SdBlocks - n) : SdWrite(block_address, n, v, devs)
SdSizeStep == SdSize

SdNext == SdInitStep \/ SdReadStep \/ SdWriteStep \/ SdSizeStep

SdSpec == SdInitial /\ [][SdNext]_vars

\* ============================================== functions applied to inputs
\* (block-device-driver/src/lib.rs, sdspi/src/lib.rs)  The conversions
\* between byte slices and aligned blocks, and the command frame of SdSpi,
\* each applied once to an input drawn from a bounded set.

\* Most blocks and bytes of a converted slice, and addresses it can start at.
MaxConvBlocks == 2
MaxConvLen == 4
MaxConvPtr == 3
\* The const SIZE and the alignments ALIGN the conversions are used with.
ConvSizes == 1..4
ConvAligns == {1, 2, 4}

\* size_of::<Aligned<ALIGN, [u8; SIZE]>>(): SIZE rounded up to ALIGN.
Stride(align, sz) == ((sz + align - 1) \div align) * align
\* The bytes of k blocks laid out in memory with that stride; `junk` fills
\* the padding.
BlockBytes(align, sz, blocks, junk) ==
    [i \in 1..(Len(blocks) * Stride(align, sz)) |->
        IF ((i - 1) % Stride(align, sz)) < sz
        THEN blocks[((i - 1) \div Stride(align, sz)) + 1][((i - 1) % Stride(align, sz)) + 1]
        ELSE junk]
\* Block i of a view of k blocks over the bytes of a slice; a byte outside
\* the slice is whatever lies behind it in memory (`junk`).
ViewByte(bytes, at, junk) == IF at <= Len(bytes) THEN bytes[at] ELSE junk
ViewBlocks(align, sz, bytes, k, junk) ==
    [i \in 1..k |->
        [j \in 1..sz |-> ViewByte(bytes, ((i - 1) * Stride(align, sz)) + j, junk)]]

ConvPanic == [res |-> "panic", ptr |-> 0, bytes |-> <<>>, blocks |-> <<>>, oob |-> FALSE]

\* slice_to_blocks::<ALIGN, SIZE>(slice) and slice_to_blocks_mut: the three
\* asserts, then from_raw_parts(ptr, len / SIZE).  oob: the blocks reach
\* beyond the slice.
slice_to_blocks(align, sz, bslice, junk) ==
    IF (Len(bslice.bytes) % sz) # 0 \/ (Len(bslice.bytes) % align) # 0
       \/ (bslice.ptr % align) # 0
    THEN ConvPanic
    ELSE [res |-> "ok", ptr |-> bslice.ptr, bytes |-> bslice.bytes,
          blocks |-> ViewBlocks(align, sz, bslice.bytes, Len(bslice.bytes) \div sz, junk),
          oob |-> (Len(bslice.bytes) \div sz) * Stride(align, sz) > Len(bslice.bytes)]
slice_to_blocks_mut(align, sz, bslice, junk) == slice_to_blocks(align, sz, bslice, junk)

\* blocks_to_slice::<ALIGN, SIZE>(buf) and blocks_to_slice_mut: the assert,
\* then from_raw_parts(ptr, buf.len() * SIZE).  blocks_to_slice_unchecked
\* leaves the assert out.
blocks_to_slice_unchecked(align, sz, buf, junk) ==
    [res |-> "ok", ptr |-> buf.ptr,
     bytes |-> SubSeq(BlockBytes(align, sz, buf.blocks, junk), 1, Len(buf.blocks) * sz),
     blocks |-> buf.blocks, oob |-> FALSE]
blocks_to_slice(align, sz, buf, junk) ==
    IF (sz % align) # 0 THEN ConvPanic
    ELSE [res |-> "ok", ptr |-> buf.ptr,
          bytes |-> SubSeq(BlockBytes(align, sz, buf.blocks, junk), 1, Len(buf.blocks) * sz),
          blocks |-> buf.blocks, oob |-> FALSE]
blocks_to_slice_mut(align, sz, buf, junk) == blocks_to_slice(align, sz, buf, junk)

\* The command indices and arguments a frame is built from, and the bytes a
\* CRC7 is taken over.
FrameCmds == 0..63
FrameArgs == {0, 1, 426, 512, 1073741824 + 16777216 + 1048576, 2147483647}
CrcBytes == {0, 1, 128, 255}

FnInit ==
    /\ BufIdle
    /\ SliceIdle
    /\ SdIdle
    /\ panicked = FALSE
    /\ last = NoOp
    /\ poll = NoPoll
    /\ applied = NoApplied

FnApply(rec) ==
    /\ applied = NoApplied
    /\ applied' = rec
    /\ UNCHANGED <<panicked, last, poll, bufVars, sliceVars, sdVars>>

\* blocks_to_slice(_mut) of k blocks, then slice_to_blocks(_mut) of the
\* slice it gave.
ApplyRoundTrip ==
    \E align \in ConvAligns, sz \in ConvSizes, k \in 0..MaxConvBlocks,
       junk \in Byte, mutable \in BOOLEAN :
        \E ptr \in {a \in 0..MaxConvPtr : a % align = 0},
           blocks \in [1..k -> [1..sz -> Byte]] :
            \E s \in {IF mutable
                      THEN blocks_to_slice_mut(align, sz, [ptr |-> ptr, blocks |-> blocks], junk)
                      ELSE blocks_to_slice(align, sz, [ptr |-> ptr, blocks |-> blocks], junk)} :
                FnApply([fn |-> "round_trip", align |-> align, size |-> sz,
                         ptr |-> ptr, blocks |-> blocks, slice |-> s,
                         back |-> IF s.res # "ok" THEN ConvPanic
                                  ELSE IF mutable
                                  THEN slice_to_blocks_mut(align, sz, s, junk)
                                  ELSE slice_to_blocks(align, sz, s, junk)])

\* slice_to_blocks(_mut) of any byte slice.
ApplySliceToBlocks ==
    \E align \in ConvAligns, sz \in ConvSizes, ptr \in 0..MaxConvPtr,
       len \in 0..MaxConvLen, junk \in Byte, mutable \in BOOLEAN :
        \E bytes \in [1..len -> Byte] :
            FnApply([fn |-> "slice_to_blocks", align |-> align, size |-> sz,
                     ptr |-> ptr, bytes |-> bytes,
                     back |-> IF mutable
                              THEN slice_to_blocks_mut(align, sz,
                                                       [ptr |-> ptr, bytes |-> bytes], junk)
                              ELSE slice_to_blocks(align, sz,
                                                   [ptr |-> ptr, bytes |-> bytes], junk)])

\* The frame cmd builds for a command (line 353-361).
ApplyFrame ==
    \E c \in FrameCmds, arg \in FrameArgs :
        FnApply([fn |-> "frame", cmd |-> c, arg |-> arg, out |-> Frame(c, arg)])

\* crc7 of a 5-byte header.
ApplyCrc7 ==
    \E h \in [1..5 -> CrcBytes] :
        FnApply([fn |-> "crc7", data |-> h, out |-> crc7(h)])

FnNext == ApplyRoundTrip \/ ApplySliceToBlocks \/ ApplyFrame \/ ApplyCrc7

FnSpec == FnInit /\ [][FnNext]_vars

\* ------------------------------------------------------ observed operations
Observed(op) == last.op = op
ObservedOk(op) == last.op = op /\ last.res = "ok"
IsValidBlock(b) == b < NumBlocks
LastCall == last.calls[Len(last.calls)]

\* Byte i as a cached-path read that started at last.off delivers it: the
\* buffer's byte when the read started inside the block that was cached, the
\* device's byte (as the device is when the read returns) otherwise.
CacheView(i) ==
    IF /\ pointer_block_start(last.off) = last.pre.current_block
       /\ pointer_block_start(i) = last.pre.current_block
    THEN last.pre.buffer[i % SIZE]
    ELSE dev[i]

\* The observed read or write started in direct mode on a block the u32
\* block address can name.
StartedDirect ==
    /\ last.op \in {"read", "write"}
    /\ last.len > 0 /\ last.len % SIZE = 0
    /\ last.addr % ALIGN = 0
    /\ last.off % SIZE = 0
    /\ last.res # "panic"

\* The observed read or write started off a block boundary with an aligned
\* buf of a positive multiple of SIZE bytes.
StartedMisaligned ==
    /\ last.op \in {"read", "write"}
    /\ last.len > 0 /\ last.len % SIZE = 0
    /\ last.addr % ALIGN = 0
    /\ last.off % SIZE # 0

\* ------------------------------------------------------------------ claims

\* C1: every sequence of seek/read/write/flush calls without a failure that
\* ends with a successful flush() leaves the device equal to the oracle the
\* same seeks and writes were applied to.
C1_DeviceEqualsOracleAfterFlush ==
    (ObservedOk("flush") /\ noErr) => dev = oracle

\* C2: round trip: write B at offset o, flush, seek back to o, read |B|
\* bytes: the read returns B.
C2_RoundTrip ==
    (rt.phase = 4 /\ last.res = "ok") => last.data = rt.data

\* C3: a read or write that starts in direct mode issues exactly one device
\* call, of len/SIZE blocks from block cursor/SIZE on; it leaves buffer,
\* current_block and dirty unchanged, and when the device call succeeds it
\* returns len and advances the cursor by len.
C3_DirectMode ==
    StartedDirect =>
        /\ Len(last.calls) = 1
        /\ last.calls[1].kind = last.op
        /\ last.calls[1].why = "direct"
        /\ last.calls[1].block = last.off \div SIZE
        /\ last.calls[1].n = last.len \div SIZE
        /\ last.op = "write" => last.calls[1].data = last.data
        /\ buffer = last.pre.buffer
        /\ current_block = last.pre.current_block
        /\ dirty = last.pre.dirty
        /\ last.res = "ok" <=> last.calls[1].ok
        /\ last.res = "ok" =>
              /\ last.n = last.len
              /\ current_offset = last.off + last.len
              /\ last.op = "read" =>
                    last.data = Bytes(last.pre.dev, last.off, last.len)
              /\ last.op = "write" =>
                    Bytes(dev, last.off, last.len) = last.data
        /\ last.res # "ok" => current_offset = last.off

C3_Witness ==
    /\ StartedDirect /\ last.res = "ok" /\ last.op = "write"
    /\ last.len = 2 * SIZE /\ last.pre.dirty
    /\ last.pre.current_block = last.off \div SIZE

\* C4: right after a successful flush(), dirty is false and the buffer
\* equals the device's contents of block current_block when that is a block
\* of the device.
C4_FlushLeavesCacheClean ==
    (ObservedOk("flush") /\ noErr) =>
        /\ ~dirty
        /\ IsValidBlock(current_block) =>
              BufSeq(buffer) = DevBlocks(dev, current_block, 1)

\* C5: dirty implies that current_block is a block that was loaded from the
\* device, never the u32::MAX sentinel.
C5_DirtyImpliesCachedBlock ==
    dirty => (current_block # U32MAX /\ IsValidBlock(current_block))

\* C6: when the device write issued by a flush fails (flush() itself, the
\* flush at the end of a block in write, the write-back in check_cache),
\* dirty stays true and buffer and current_block still hold the data and the
\* block of the failed write.
C6_FailedFlushKeepsDirty ==
    (last.op # "none" /\ last.res = "err" /\ Len(last.calls) > 0
        /\ LastCall.kind = "write" /\ LastCall.why = "flush") =>
            /\ dirty
            /\ current_block = LastCall.block
            /\ BufSeq(buffer) = LastCall.data

\* C7: after a direct-mode write over block current_block the cache is
\* invalidated or refreshed: a cached-path read of that block that follows
\* returns the bytes just written.
C7_DirectWriteKeepsCacheCoherent ==
    (ObservedOk("write") /\ last.modes = <<"direct">>
        /\ IsValidBlock(current_block)
        /\ last.calls[1].block <= current_block
        /\ current_block < last.calls[1].block + last.calls[1].n) =>
            ReadLoop([Machine(0) EXCEPT !.current_offset = current_block * SIZE],
                     1, 1, 1).out
                = Bytes(dev, current_block * SIZE, 1)

\* C8: flush() issues one device write, of the buffer to block
\* current_block, when dirty and no device call otherwise; it leaves
\* current_block, buffer and the cursor unchanged, and a second flush()
\* right after it issues no device call and changes nothing.
C8_FlushIdempotent ==
    Observed("flush") =>
        /\ last.pre.dirty =>
              /\ Len(last.calls) = 1
              /\ last.calls[1].kind = "write"
              /\ last.calls[1].block = last.pre.current_block
              /\ last.calls[1].n = 1
              /\ last.calls[1].data = BufSeq(last.pre.buffer)
        /\ ~last.pre.dirty => last.calls = <<>> /\ dev = last.pre.dev
        /\ buffer = last.pre.buffer
        /\ current_block = last.pre.current_block
        /\ current_offset = last.off
        /\ flush(Machine(0)) = Machine(0)

C8_Witness ==
    ObservedOk("flush") /\ last.pre.dirty /\ dev # last.pre.dev

SliceObserved(op) == last.op = op
SliceUnchanged == slice = last.pre.slice /\ inner = last.pre.inner
\* The window of the slice, and the offset a seek asks for, as integers.
InWindow(i) == i >= slice.start_offset /\ i < slice.start_offset + slice.size
SeekAsked ==
    CASE last.whence = "Start"   -> last.x
      [] last.whence = "Current" -> last.pre.slice.current_offset + last.x
      [] last.whence = "End"     -> last.pre.slice.size + last.x
      [] OTHER                   -> 0

\* C11: in every state a StreamSlice reaches, and so after each successful
\* call, the cursor lies in 0..size and the wrapped stream stands at
\* start_offset + cursor.
C11_SliceCursorTracksInner ==
    /\ slice.current_offset >= 0
    /\ slice.current_offset <= slice.size
    /\ inner.pos = slice.start_offset + slice.current_offset

\* A slice that does not start at 0 was written up to its end after a seek.
C11_Witness ==
    /\ SliceObserved("slice_write") /\ last.res = "ok" /\ last.n > 0
    /\ slice.start_offset > 0
    /\ last.pre.slice.current_offset > 0
    /\ slice.current_offset = slice.size

\* C12: a write of a nonempty buf hands the wrapped stream at most
\* size - cursor bytes and changes no byte outside the window; it returns
\* the count the wrapped stream accepted and advances the cursor by it; it
\* fails with WriteZero exactly when cursor = size, and then changes nothing.
C12_WriteTruncatesToWindow ==
    (SliceObserved("slice_write") /\ last.len > 0) =>
        /\ last.passed <= last.pre.slice.size - last.pre.slice.current_offset
        /\ \A i \in 0..(InnerLen - 1) :
              ~InWindow(i) => inner.data[i] = last.pre.inner.data[i]
        /\ last.res = "ok" =>
              /\ last.n = inner.pos - last.pre.inner.pos
              /\ slice.current_offset = last.pre.slice.current_offset + last.n
        /\ last.res = "WriteZero" <=>
              (last.pre.slice.current_offset = last.pre.slice.size
               /\ last.res # "Other")
        /\ last.res = "WriteZero" => SliceUnchanged

\* C13: a seek asks for x (Start), cursor + x (Current) or size + x (End).
\* Outside 0..size it fails with InvalidSeek carrying that offset and
\* changes nothing; inside (size included) it sends the wrapped stream to
\* start_offset + offset, sets the cursor to the offset and returns it,
\* unless the wrapped stream's own seek fails.
C13_SeekBounds ==
    SliceObserved("slice_seek") =>
        IF SeekAsked < 0 \/ SeekAsked > last.pre.slice.size
        THEN /\ last.res = "InvalidSeek"
             /\ last.payload = SeekAsked
             /\ SliceUnchanged
        ELSE \/ last.res = "Other" /\ SliceUnchanged
             \/ /\ last.res = "ok"
                /\ last.n = SeekAsked
                /\ slice.current_offset = SeekAsked
                /\ inner.pos = slice.start_offset + SeekAsked

\* C14: a write of an empty buf returns Ok(0) and changes nothing, so
\* WriteZero comes from a nonempty buf only; a slice of size 0 accepts empty
\* reads and writes and a seek to 0, and rejects every nonempty write and
\* every other seek.
C14_EmptyWriteIsOk ==
    /\ (SliceObserved("slice_write") /\ last.len = 0 /\ last.res # "Other") =>
           last.res = "ok" /\ last.n = 0 /\ SliceUnchanged
    /\ (SliceObserved("slice_write") /\ last.res = "WriteZero") => last.len > 0
    /\ (last.pre.slice.size = 0 /\ last.res # "Other") =>
           /\ (SliceObserved("slice_read") /\ last.len = 0) =>
                  last.res = "ok" /\ last.n = 0
           /\ (SliceObserved("slice_write") /\ last.len > 0) => last.res # "ok"
           /\ SliceObserved("slice_seek") => (last.res = "ok" <=> SeekAsked = 0)

\* ------------------------------------------------------------- SdSpi claims
SdObserved(op) == last.op = op
\* The transfers of the observed call, by kind.
IsCmdEvent(e) == e.ev = "write" /\ e.why = "cmd"
IsR1Event(e) == e.ev = "read" /\ e.why = "r1" /\ e.ok /\ e.bytes[1] < 128
IsR7Event(e) == e.ev = "read" /\ e.why = "r7" /\ e.ok
IsOcrEvent(e) == e.ev = "read" /\ e.why = "ocr" /\ e.ok
IsPayloadRead(e) == e.ev = "read" /\ e.why = "payload" /\ e.ok
SdCmds == SelectSeq(last.log, IsCmdEvent)
SdR1s == SelectSeq(last.log, IsR1Event)
SdR7s == SelectSeq(last.log, IsR7Event)
SdOcrs == SelectSeq(last.log, IsOcrEvent)
SdPayloads == SelectSeq(last.log, IsPayloadRead)
\* Positions in the log of the transfers of one kind.
SdAt(ev, why) == {j \in 1..Len(last.log) : last.log[j].ev = ev /\ last.log[j].why = why}
SdCmdAt(c) == {j \in SdAt("write", "cmd") : last.log[j].cmd = c}

\* The place of a command in the initialisation sequence.
InitPhase(c) ==
    CASE c = 0 -> 0 [] c = 59 -> 1 [] c = 8 -> 2 [] c \in {55, 41} -> 3
      [] c = 58 -> 4 [] c = 9 -> 5 [] c = 10 -> 6 [] OTHER -> 7

InitOrder(cs, r1) ==
    /\ Len(r1) = Len(cs)
    /\ {InitPhase(cs[i].cmd) : i \in 1..Len(cs)} = 0..6
    /\ \A i \in 1..(Len(cs) - 1) : InitPhase(cs[i].cmd) <= InitPhase(cs[i + 1].cmd)
    /\ \A i \in 1..(Len(cs) - 1) :
          /\ cs[i].cmd = 0 => (r1[i].bytes[1] = R1_IDLE_STATE <=> cs[i + 1].cmd # 0)
          /\ cs[i].cmd = 59 => cs[i].arg = 1 /\ cs[i + 1].cmd = 8
          /\ cs[i].cmd = 8 => cs[i].arg = 426
          /\ cs[i].cmd = 55 => cs[i + 1].cmd = 41
          /\ cs[i].cmd = 41 =>
                /\ cs[i - 1].cmd = 55
                /\ (cs[i].arg \div (2 ^ 30)) % 2 = 1
                /\ r1[i].bytes[1] = R1_READY_STATE <=> cs[i + 1].cmd # 55
          /\ cs[i].cmd = 9 => cs[i + 1].cmd = 10
    /\ cs[Len(cs)].cmd = 10
InitRepeats(cs, r7, ocr) ==
    /\ Len(r7) = Cardinality({i \in 1..Len(cs) : cs[i].cmd = 8})
    /\ \A j \in 1..Len(r7) : r7[j].bytes[4] = 170 <=> j = Len(r7)
    /\ Len(ocr) = Cardinality({i \in 1..Len(cs) : cs[i].cmd = 58})
    /\ \A j \in 1..Len(ocr) : ocr_is_busy(ocr[j].bytes) <=> j < Len(ocr)
\* The call ended with a register of REG_LEN bytes whose CRC16 matched.
EndsWithRegister(log) ==
    /\ Len(log) >= 2
    /\ log[Len(log)].ev = "read" /\ log[Len(log)].why = "crc" /\ log[Len(log)].ok
    /\ IsPayloadRead(log[Len(log) - 1])
    /\ Len(log[Len(log) - 1].bytes) = REG_LEN
    /\ from_be_bytes(log[Len(log)].bytes) = crc16(log[Len(log) - 1].bytes)

\* C15: a successful init sends CMD0 (until R1 = 0x01), CMD59 with argument
\* 1 once, CMD8 with argument 0x1AA (until the check byte 0xAA comes back),
\* CMD55 + ACMD41 with HCS (until R1 = 0x00), CMD58 (while the OCR says
\* busy), CMD9, CMD10, in this order; and card is set only by an init that
\* received CMD10's 16-byte block with a matching CRC16.
C15_InitSequence ==
    SdObserved("sd_init") =>
        /\ last.res = "ok" =>
              /\ InitOrder(SdCmds, SdR1s)
              /\ InitRepeats(SdCmds, SdR7s, SdOcrs)
              /\ card # <<>>
        /\ card # last.pre.card =>
              /\ last.res = "ok"
              /\ EndsWithRegister(last.log)
              /\ SdCmds[Len(SdCmds)].cmd = 10

\* An init that had to repeat a step succeeded.
C15_Witness ==
    /\ SdObserved("sd_init") /\ last.res = "ok" /\ card # <<>>
    /\ last.pre.card = <<>>
    /\ Len(SdCmds) > 9

\* C16: read, write and size called before any init succeeded fail with
\* NotInitialized and put nothing on the bus.
C16_RequiresCard ==
    (last.op \in {"sd_read", "sd_write", "sd_size"} /\ last.pre.card = <<>>) =>
        last.res = "NotInitialized" /\ last.log = <<>>

\* C17: the OCR init records is the one CMD58 returned, and read and write
\* put block_addr into the command argument for a card whose OCR has CCS
\* set, block_addr * 512 otherwise.
C17_AddressByCapacity ==
    /\ (SdObserved("sd_init") /\ last.res = "ok") =>
          card[1].ocr = SdOcrs[Len(SdOcrs)].bytes
    /\ (last.op \in {"sd_read", "sd_write"} /\ last.n >= 1 /\ last.pre.card # <<>>) =>
          \A j \in SdCmdAt(17) \cup SdCmdAt(18) \cup SdCmdAt(24) \cup SdCmdAt(25) :
              last.log[j].arg = IF ocr_high_capacity(last.pre.card[1].ocr)
                                THEN last.addr ELSE last.addr * 512

\* C18: a read of one block sends CMD17 and takes one data block; a read of
\* n > 1 blocks sends CMD18, takes the n blocks in order into data, and only
\* then sends CMD12, followed by one stuff byte before R1 is polled.  CMD12
\* never goes with CMD17, nor CMD17 with a read of several blocks.
C18_ReadCommands ==
    (SdObserved("sd_read") /\ last.n >= 1) =>
        /\ Len(SdCmds) >= 1 => SdCmds[1].cmd = IF last.n = 1 THEN 17 ELSE 18
        /\ \A i \in 1..Len(SdCmds) :
              SdCmds[i].cmd \in (IF last.n = 1 THEN {17} ELSE {18, 12})
        /\ Len(SdPayloads) <= last.n
        /\ \A j \in SdCmdAt(12) :
              /\ Cardinality({k \in SdAt("read", "crc") : k < j /\ last.log[k].ok}) = last.n
              /\ \A k \in SdAt("read", "payload") : k < j
              /\ (last.log[j].ok /\ j < Len(last.log)) =>
                    /\ last.log[j + 1].why = "stuff"
                    /\ j + 1 < Len(last.log) => last.log[j + 2].why = "r1"
        /\ last.res = "ok" =>
              /\ Len(last.out) = last.n
              /\ \A i \in 1..last.n : last.out[i] = SdPayloads[i].bytes
              /\ last.n > 1 => Cardinality(SdCmdAt(12)) = 1

\* Two blocks were read.
C18_Witness ==
    /\ SdObserved("sd_read") /\ last.res = "ok" /\ last.n = 2
    /\ last.out[1] # last.out[2]
    /\ SdCmdAt(12) # {}

\* The number of the block whose token is at position j of the log.
BlockOfToken(j) == Cardinality({k \in SdAt("write", "token") : k <= j})

\* C19: a write of one block sends CMD24, then token 0xFE, the payload and
\* its CRC16 big-endian; a write of n > 1 blocks sends CMD55, CMD23 with
\* argument n (whatever R1 it gets), CMD25, then for each block in order
\* token 0xFC, payload, CRC16, and last the token 0xFD alone.  The byte read
\* after each block ends the write with WriteError unless its low five bits
\* are 0x05.
C19_WriteCommands ==
    (SdObserved("sd_write") /\ last.n >= 1) =>
        /\ \A i \in 1..Len(SdCmds) :
              /\ last.n = 1 => SdCmds[i].cmd = (IF i = 1 THEN 24 ELSE 13)
              /\ last.n > 1 => i <= 3 /\ SdCmds[i].cmd = <<55, 23, 25>>[i]
              /\ SdCmds[i].cmd = 23 => SdCmds[i].arg = last.n
        /\ (last.n > 1 /\ Len(SdR1s) >= 2 /\ last.res \notin {"SpiError", "Timeout"}) =>
              Len(SdCmds) = 3
        /\ \A j \in SdAt("write", "token") :
              /\ \E k \in SdCmdAt(24) \cup SdCmdAt(25) : k < j
              /\ last.log[j].bytes = <<IF last.n = 1 THEN DATA_START_BLOCK
                                        ELSE WRITE_MULTIPLE_TOKEN>>
              /\ BlockOfToken(j) <= last.n
              /\ (last.log[j].ok /\ j < Len(last.log)) =>
                    /\ last.log[j + 1].ev = "write" /\ last.log[j + 1].why = "payload"
                    /\ last.log[j + 1].bytes = last.data[BlockOfToken(j)]
              /\ (j + 1 < Len(last.log) /\ last.log[j + 1].ok) =>
                    /\ last.log[j + 2].ev = "write" /\ last.log[j + 2].why = "crc"
                    /\ last.log[j + 2].bytes =
                          to_be_bytes(crc16(last.data[BlockOfToken(j)]))
              /\ (j + 2 < Len(last.log) /\ last.log[j + 2].ok) =>
                    /\ last.log[j + 3].ev = "read" /\ last.log[j + 3].why = "resp"
        /\ \A j \in SdAt("read", "resp") :
              (last.log[j].ok /\ (last.log[j].bytes[1] % 32) # 5) =>
                  last.res = "WriteError" /\ j = Len(last.log)
        /\ \A j \in SdAt("write", "stop") :
              /\ last.n > 1
              /\ \A k \in (j + 1)..Len(last.log) : last.log[k].ev # "write"
              /\ last.log[j].bytes = <<STOP_TRAN_TOKEN>>
              /\ Cardinality(SdAt("write", "token")) = last.n
        /\ (last.res = "ok" /\ last.n > 1) => SdAt("write", "stop") # {}
        /\ last.res = "ok" => Cardinality(SdAt("read", "resp")) = last.n

\* Two blocks were written although the card answered CMD23 with an error.
C19_Witness ==
    /\ SdObserved("sd_write") /\ last.res = "ok" /\ last.n = 2
    /\ Len(SdR1s) = 3 /\ SdR1s[2].bytes[1] # R1_READY_STATE
    /\ SdAt("write", "stop") # {}

\* C20: a write returns Ok only after the card left busy: after every data
\* block and after the final token 0xFD of a write of several blocks the
\* driver read a byte 0xFF before returning.
C20_WriteWaitsForIdle ==
    (SdObserved("sd_write") /\ last.res = "ok" /\ last.n >= 1) =>
        \A j \in SdAt("read", "resp") \cup SdAt("write", "stop") :
            \E k \in SdAt("read", "idle") : k > j /\ last.log[k].bytes = <<255>>

\* The R1 bytes that answer the command at position j of the log.
R1Of(j) ==
    {k \in SdAt("read", "r1") :
        /\ k > j /\ IsR1Event(last.log[k])
        /\ \A i \in SdAt("write", "cmd") : ~(j < i /\ i < k)}

\* C21: a write sends a data token and payload only after CMD24 or CMD25
\* was answered with R1 = 0x00; any other R1 ends the write with an error
\* and neither token nor payload follows.
C21_WriteNeedsReadyR1 ==
    (SdObserved("sd_write") /\ last.n >= 1) =>
        /\ \A j \in SdCmdAt(24) \cup SdCmdAt(25) : \A k \in R1Of(j) :
              last.log[k].bytes[1] # R1_READY_STATE =>
                  /\ last.res # "ok"
                  /\ \A t \in SdAt("write", "token") \cup SdAt("write", "payload") : t < j
        /\ \A t \in SdAt("write", "token") :
              \E j \in SdCmdAt(24) \cup SdCmdAt(25) : \E k \in R1Of(j) :
                  k < t /\ last.log[k].bytes[1] = R1_READY_STATE

\* The CRC reads of the observed call that followed a received payload.
CrcReads ==
    {k \in SdAt("read", "crc") : k > 1 /\ last.log[k].ok /\ IsPayloadRead(last.log[k - 1])}
CrcDiffers(k) == from_be_bytes(last.log[k].bytes) # crc16(last.log[k - 1].bytes)

\* C22: receiving a data block fails with CrcMismatch(received, computed)
\* exactly when the two bytes after the payload, big-endian, differ from
\* crc16 of the payload received; read and init return that error at once,
\* with no further transfer.
C22_CrcMismatch ==
    (last.op \in {"sd_read", "sd_init"}) =>
        /\ \A k \in CrcReads :
              CrcDiffers(k) =>
                  /\ last.res = "CrcMismatch"
                  /\ last.errv = <<from_be_bytes(last.log[k].bytes),
                                   crc16(last.log[k - 1].bytes)>>
                  /\ k = Len(last.log)
        /\ last.res = "CrcMismatch" =>
              Len(last.log) \in CrcReads /\ CrcDiffers(Len(last.log))

\* A read received a payload that differs from what the card holds while the
\* CRC bytes were the card's, and a read received wrong CRC bytes.
C22_Witness ==
    /\ SdObserved("sd_read") /\ last.res = "CrcMismatch" /\ last.n = 2
    /\ Len(SdPayloads) = 2
    /\ last.errv[1] # last.errv[2]

\* The command at position j of the log was the last one of the call.
LastCmd(j) == \A i \in SdAt("write", "cmd") : i <= j
\* The command c of an init was answered with an R1 that `bad` rejects: the
\* init ended with err, sent no further command and left card alone.
InitAborts(c, bad, err) ==
    \A j \in SdCmdAt(c) : \A k \in R1Of(j) :
        bad[last.log[k].bytes[1]] =>
            /\ last.res = err
            /\ LastCmd(j)
            /\ k = Len(last.log)
            /\ card = last.pre.card

\* C24: init ends at the first failing step with that step's error:
\* Cmd59Error if CMD59's R1 is not 0x01, UnsupportedCard if CMD8's R1 is
\* 0x05, Cmd58Error if CMD58's R1 is not 0x00, RegisterError(r) if CMD9 or
\* CMD10 gets R1 = r # 0x00.  No later command is sent, the step is not
\* repeated, and card stays what it was, so that size on a fresh driver
\* still fails with NotInitialized.
C24_InitAbortsAtFirstFailure ==
    /\ SdObserved("sd_init") =>
          /\ InitAborts(59, [r \in 0..255 |-> r # R1_IDLE_STATE], "Cmd59Error")
          /\ InitAborts(8, [r \in 0..255 |-> r = R1_ILLEGAL_COMMAND + R1_IDLE_STATE],
                        "UnsupportedCard")
          /\ InitAborts(58, [r \in 0..255 |-> r # R1_READY_STATE], "Cmd58Error")
          /\ InitAborts(9, [r \in 0..255 |-> r # R1_READY_STATE], "RegisterError")
          /\ InitAborts(10, [r \in 0..255 |-> r # R1_READY_STATE], "RegisterError")
          /\ \A j \in SdCmdAt(9) \cup SdCmdAt(10) : \A k \in R1Of(j) :
                last.log[k].bytes[1] # R1_READY_STATE =>
                    last.errv = <<last.log[k].bytes[1]>>
          /\ last.res # "ok" => card = last.pre.card
    /\ (SdObserved("sd_size") /\ card = <<>>) => last.res = "NotInitialized"

\* An init of a driver that already had a card was refused at CMD10.
C24_Witness ==
    /\ SdObserved("sd_init")
    /\ last.res = "RegisterError" /\ last.errv = <<5>>
    /\ SdCmds[Len(SdCmds)].cmd = 10
    /\ last.pre.card # <<>> /\ card = last.pre.card

\* ------------------------------------------------- claims about functions
\* A reference CRC7: the remainder of the message, bit by bit from the most
\* significant, in a 7-bit register with polynomial x^7 + x^3 + 1.
RefCrc7Step(r, b) ==
    IF (r \div 64) # b THEN Xor((r * 2) % 128, 9) ELSE (r * 2) % 128
RefBit(data, n) == (data[(n \div 8) + 1] \div (2 ^ (7 - (n % 8)))) % 2
RECURSIVE RefCrc7(_, _, _)
RefCrc7(data, n, r) ==
    IF n >= 8 * Len(data) \/ r > 127 THEN r
    ELSE RefCrc7(data, n + 1, RefCrc7Step(r, RefBit(data, n)))

\* C25: a command goes out as 6 bytes: 0x40 | index with bit 7 clear, the
\* argument big-endian, and (crc7 << 1) | 1 of the five bytes before, which
\* is odd and agrees with the reference CRC7 for every header.
C25_FrameFormat ==
    /\ applied.fn = "frame" =>
          /\ Len(applied.out) = 6
          /\ applied.out[1] = 64 + (applied.cmd % 64)
          /\ applied.out[1] >= 64 /\ applied.out[1] < 128
          /\ \A i \in 2..5 : applied.out[i] \in 0..255
          /\ applied.arg = (applied.out[2] * 16777216) + (applied.out[3] * 65536)
                           + (applied.out[4] * 256) + applied.out[5]
          /\ applied.out[6] = (2 * RefCrc7(SubSeq(applied.out, 1, 5), 0, 0)) + 1
    /\ applied.fn = "crc7" =>
          /\ applied.out = (2 * RefCrc7(applied.data, 0, 0)) + 1
          /\ applied.out % 2 = 1 /\ applied.out < 256

\* The frame of CMD8 with argument 0x1AA ends with 0x87.
C25_Witness ==
    /\ applied.fn = "frame" /\ applied.cmd = 8 /\ applied.arg = 426
    /\ applied.out = <<72, 0, 0, 1, 170, 135>>

StartedCached ==
    /\ last.op \in {"read", "write"}
    /\ last.res # "panic"
    /\ ~(last.len % SIZE = 0 /\ last.addr % ALIGN = 0 /\ last.off % SIZE = 0)
StartBlock == last.off \div SIZE
StartHit == last.pre.current_block = StartBlock
\* The device reads that filled the cache.
Loads == {i \in 1..Len(last.calls) : last.calls[i].why = "load"}
IsLoadOf(c, block) == c.kind = "read" /\ c.why = "load" /\ c.block = block /\ c.n = 1

\* C27: the cached path touches the device for the cache on a miss only: a
\* dirty buffer is first written to the old block, and only after that
\* write the new block is read and becomes the cached block.  On a hit no
\* device read is made, so a read inside the cached block costs no device
\* call.
C27_CacheMissProtocol ==
    /\ last.op \in {"read", "write"} =>
          /\ \A i \in Loads :
                /\ last.calls[i].kind = "read" /\ last.calls[i].n = 1
                /\ (i > 1 /\ last.calls[i - 1].why = "flush") => last.calls[i - 1].ok
          /\ \A i \in Loads : \A j \in Loads :
                i < j => last.calls[i].block < last.calls[j].block
          /\ last.res # "panic" =>
                current_block =
                    IF \E i \in Loads : last.calls[i].ok
                    THEN last.calls[CHOOSE i \in Loads :
                                       /\ last.calls[i].ok
                                       /\ \A j \in Loads : last.calls[j].ok => j <= i].block
                    ELSE last.pre.current_block
    /\ (StartedCached /\ StartHit) =>
          /\ \A i \in Loads : last.calls[i].block # StartBlock
          /\ (last.op = "read" /\ (last.off % SIZE) + last.len <= SIZE) =>
                last.calls = <<>> /\ last.res = "ok"
    /\ (StartedCached /\ ~StartHit /\ last.pre.dirty) =>
          /\ Len(last.calls) >= 1
          /\ last.calls[1].kind = "write" /\ last.calls[1].why = "flush"
          /\ last.calls[1].block = last.pre.current_block
          /\ last.calls[1].data = BufSeq(last.pre.buffer)
          /\ last.calls[1].ok =>
                Len(last.calls) >= 2 /\ IsLoadOf(last.calls[2], StartBlock)
          /\ ~last.calls[1].ok =>
                Len(last.calls) = 1 /\ current_block = last.pre.current_block
    /\ (StartedCached /\ ~StartHit /\ ~last.pre.dirty) =>
          Len(last.calls) >= 1 /\ IsLoadOf(last.calls[1], StartBlock)

\* A read evicted a dirty block: write-back, then load; and a read hit the
\* cached block.
C27_Witness ==
    /\ StartedCached /\ ~StartHit /\ last.pre.dirty
    /\ last.op = "read" /\ last.res = "ok"
    /\ Len(last.calls) = 2 /\ last.calls[1].ok
    /\ last.pre.current_block # U32MAX

\* The last iteration of the observed call was on the cached path.
EndedCached == Len(last.modes) >= 1 /\ last.modes[Len(last.modes)] = "cached"

\* C28: a cached write that fills the block to its last byte writes the
\* buffer to the device and clears dirty before the cursor moves on: after a
\* successful write of a nonempty buf that ended on the cached path, dirty
\* holds exactly when the cursor stands inside a block, which then is the
\* cached block.
C28_BlockEndFlush ==
    (ObservedOk("write") /\ last.len > 0 /\ EndedCached) =>
        /\ dirty <=> (current_offset % SIZE) # 0
        /\ dirty => current_block = current_offset \div SIZE
        /\ ~dirty =>
              /\ Len(last.calls) >= 1
              /\ LastCall.kind = "write" /\ LastCall.why = "flush" /\ LastCall.ok
              /\ LastCall.block = (current_offset \div SIZE) - 1
              /\ LastCall.block = current_block
              /\ LastCall.data = BufSeq(buffer)
              /\ DevBlocks(dev, current_block, 1) = BufSeq(buffer)

\* A write that started inside a block ended at the end of the next one.
C28_Witness ==
    /\ ObservedOk("write") /\ EndedCached /\ ~dirty
    /\ (last.off % SIZE) # 0 /\ last.len = SIZE + 1
    /\ last.pre.dirty

\* The cursor after i iterations of the observed read or write: a direct
\* iteration takes all of buf, a cached one goes up to the end of the block
\* or of buf.
RECURSIVE CursorAfter(_)
CursorAfter(i) ==
    IF i = 0 THEN last.off
    ELSE IF last.modes[i] = "direct" THEN last.off + last.len
    ELSE Min(((CursorAfter(i - 1) \div SIZE) + 1) * SIZE, last.off + last.len)
\* The iterations of the observed call that ran to their end: all of them,
\* but for a write whose flush at the end of a block failed.
Completed ==
    IF last.res = "err" /\ last.op = "write" /\ last.modes # <<>>
       /\ Len(last.calls) >= 1 /\ LastCall.why = "flush"
    THEN Len(last.modes) - 1
    ELSE Len(last.modes)

\* C29: read and write never move the cursor past bytes that were not
\* copied: a success returns buf.len() and has moved the cursor by as much;
\* an error leaves the cursor moved by the bytes of the iterations that
\* ended before the failing device call, and by nothing for the failing one.
C29_CursorFollowsCopiedBytes ==
    (last.op \in {"read", "write"} /\ last.res # "panic") =>
        /\ last.res = "ok" =>
              /\ last.n = last.len
              /\ current_offset = last.off + last.len
              /\ last.op = "read" => Len(last.data) = last.len
        /\ last.res = "err" =>
              /\ Len(last.calls) >= 1 /\ ~LastCall.ok
              /\ \A i \in 1..(Len(last.calls) - 1) : last.calls[i].ok
              /\ current_offset = CursorAfter(Completed)
              /\ current_offset = last.off + last.n
              /\ last.n < last.len \/ last.n = 0
              /\ last.op = "read" => Len(last.data) = last.n
              /\ LastCall.why \in {"load", "direct"} =>
                    LastCall.block = current_offset \div SIZE

\* A write failed in its second iteration after its first had copied bytes.
C29_Witness ==
    /\ Observed("write") /\ last.res = "err"
    /\ last.n > 0 /\ last.n < last.len
    /\ Len(last.calls) >= 2

\* The direct-mode test as iteration i of the observed call makes it: on
\* what is left of buf and on the cursor the iterations before left.
IterDirect(i) ==
    /\ (last.len - (CursorAfter(i - 1) - last.off)) % SIZE = 0
    /\ (last.addr + (CursorAfter(i - 1) - last.off)) % ALIGN = 0
    /\ CursorAfter(i - 1) % SIZE = 0

\* C30 as stated: a read or write that does not satisfy the direct-mode test
\* at its start moves every byte through the cache buffer and hands no part
\* of buf to the device.
C30_DirectModeAtStartOnly ==
    StartedCached =>
        /\ \A i \in 1..Len(last.modes) : last.modes[i] = "cached"
        /\ \A i \in 1..Len(last.calls) : last.calls[i].why # "direct"

\* C30 as amended: the test is made at the start of every iteration, on the
\* rest of buf: an iteration is direct exactly when the rest of buf is a
\* multiple of SIZE long and aligned and the cursor is on a block boundary.
\* A call that fails the test at its start begins on the cached path and can
\* hand the rest of buf to the device in its last iteration.
C30_DirectModePerIteration ==
    (last.op \in {"read", "write"} /\ last.res # "panic") =>
        /\ \A i \in 1..Len(last.modes) :
              /\ last.modes[i] = "direct" <=> IterDirect(i)
              /\ last.modes[i] = "direct" => i = Len(last.modes)
        /\ \A i \in 1..Len(last.calls) :
              last.calls[i].why = "direct" =>
                  /\ i = Len(last.calls)
                  /\ last.calls[i].block * SIZE = current_offset - (IF last.calls[i].ok
                                                                   THEN last.calls[i].n * SIZE
                                                                   ELSE 0)
                  /\ last.calls[i].n * SIZE = (last.off + last.len)
                                              - (last.calls[i].block * SIZE)
        /\ (StartedCached /\ last.modes # <<>>) => last.modes[1] = "cached"

\* A call that started inside a block handed the rest of buf to the device.
C30_Witness ==
    /\ StartedCached /\ last.res = "ok"
    /\ last.modes = <<"cached", "direct">>
    /\ last.len = SIZE + 1 /\ (last.off % SIZE) = 1

\* ---------------------------------------------------------------------
\* with_timeout: a polling loop of SdSpi raced against a delay
\* ---------------------------------------------------------------------
\* with_timeout(delay, timeout, fut) awaits select(fut, delay.delay_ms(timeout)).
\* One poll of the select polls fut and, when fut is pending, the delay. A
\* poll of fut runs the loop until an SPI transfer suspends or the loop
\* returns. Time is counted in steps of TickMs from the start of the race.
TIMEOUT_MS == 1000
IDLE_TIMEOUT_MS == 5000
TickMs == 500
MaxSpin == 2

\* The loops of SdSpi: the response wait of cmd, wait_idle, the token wait
\* of read_data and the four loops of init.
PollKinds == {"r1", "idle", "token", "cmd0", "cmd8", "acmd41", "ocr"}

\* The delay each loop is raced against.
PollLimit(kind) == IF kind = "idle" THEN IDLE_TIMEOUT_MS ELSE TIMEOUT_MS

\* SPI transfers of one iteration of a loop whose inner waits are answered
\* at once: read_byte for the first three; the frame and one response byte
\* for CMD0; one idle byte, the frame and one response byte for a command
\* that waits for idle, twice for an application command, and four more
\* bytes in one transfer for CMD8 and CMD58.
PollXfers(kind) ==
    CASE kind \in {"r1", "idle", "token"} -> 1
      [] kind = "cmd0" -> 2
      [] kind = "acmd41" -> 6
      [] OTHER -> 4

PollDone(p, res) == [p EXCEPT !.pc = "done", !.res = res]

\* The race is created: self.delay.clone(), the timeout and the loop.
PollStart ==
    /\ poll = NoPoll
    /\ \E kind \in PollKinds, suspends \in BOOLEAN, answers \in BOOLEAN,
          faulty \in BOOLEAN :
        poll' = [pc |-> "woken", kind |-> kind, elapsed |-> 0,
                 left |-> PollXfers(kind), spins |-> 0, io |-> "idle",
                 suspends |-> suspends, answers |-> answers,
                 faulty |-> faulty, res |-> "none"]
    /\ UNCHANGED <<panicked, last, applied, bufVars, sliceVars, sdVars>>

PollStep(p) ==
    /\ poll # NoPoll
    /\ poll' = p
    /\ UNCHANGED <<panicked, last, applied, bufVars, sliceVars, sdVars>>

\* Time passes, whatever the program does.
PollTick ==
    /\ poll # NoPoll /\ poll.pc # "done"
    /\ poll.elapsed < PollLimit(poll.kind)
    /\ PollStep([poll EXCEPT !.elapsed = poll.elapsed + TickMs])

\* The executor polls the select: fut is polled first.
PollSelect ==
    /\ poll # NoPoll /\ poll.pc = "woken"
    /\ PollStep([poll EXCEPT !.pc = "in_fut"])

\* What the loop does with a completed transfer: an SPI error ends it; the
\* last transfer of an iteration brings the byte the loop tests; unless the
\* byte is the awaited one the loop goes round.
PollAfterTransfer(p, failed, awaited) ==
    IF failed THEN PollDone(p, "SpiError")
    ELSE IF p.left > 1 THEN [p EXCEPT !.left = p.left - 1, !.io = "idle"]
    ELSE IF awaited THEN PollDone(p, "Ok")
    ELSE [p EXCEPT !.left = PollXfers(p.kind), !.io = "idle",
                   !.spins = (p.spins + 1) % MaxSpin]

\* fut is polled and reaches its next transfer. A transfer that suspends
\* makes fut pending, and the select goes on to poll the delay; a transfer
\* that completes at once lets the loop run on inside the same poll.
PollFut ==
    /\ poll # NoPoll /\ poll.pc = "in_fut"
    /\ \/ /\ poll.io = "inflight"
          /\ PollStep([poll EXCEPT !.pc = "in_delay"])
       \/ /\ poll.io = "idle" /\ poll.suspends
          /\ PollStep([poll EXCEPT !.pc = "in_delay", !.io = "inflight"])
       \/ /\ poll.io = "complete" \/ (poll.io = "idle" /\ ~poll.suspends)
          /\ \E failed \in {FALSE, poll.faulty}, awaited \in {FALSE, poll.answers} :
                PollStep(PollAfterTransfer(poll, failed, awaited))

\* The delay is polled after fut came back pending: ready when the timeout
\* has elapsed, and then the select yields Either::Second.
PollDelay ==
    /\ poll # NoPoll /\ poll.pc = "in_delay"
    /\ PollStep(IF poll.elapsed >= PollLimit(poll.kind)
                THEN PollDone(poll, "Timeout")
                ELSE [poll EXCEPT !.pc = IF poll.io = "complete" THEN "woken"
                                         ELSE "pending"])

\* The SPI peripheral finishes the transfer in flight and wakes the task.
PollSpiComplete ==
    /\ poll # NoPoll /\ poll.pc # "done" /\ poll.io = "inflight"
    /\ PollStep([poll EXCEPT !.io = "complete",
                             !.pc = IF poll.pc = "pending" THEN "woken" ELSE poll.pc])

\* The timer of the delay wakes the task.
PollDelayWake ==
    /\ poll # NoPoll /\ poll.pc = "pending"
    /\ poll.elapsed >= PollLimit(poll.kind)
    /\ PollStep([poll EXCEPT !.pc = "woken"])

PollInit ==
    /\ BufIdle
    /\ SliceIdle
    /\ SdIdle
    /\ panicked = FALSE
    /\ last = NoOp
    /\ poll = NoPoll
    /\ applied = NoApplied

PollNext ==
    \/ PollStart
    \/ PollTick
    \/ PollSelect
    \/ PollFut
    \/ PollDelay
    \/ PollSpiComplete
    \/ PollDelayWake

\* The executor polls a woken task, a poll runs on, the peripheral finishes
\* its transfers, and time passes.
PollSpec ==
    /\ PollInit
    /\ [][PollNext]_vars
    /\ WF_vars(PollTick)
    /\ WF_vars(PollSelect)
    /\ WF_vars(PollFut)
    /\ WF_vars(PollDelay)
    /\ WF_vars(PollSpiComplete)
    /\ WF_vars(PollDelayWake)

PollRunning == poll # NoPoll
PollStarved == poll # NoPoll /\ ~poll.answers /\ ~poll.faulty
PollTimedOut == poll # NoPoll /\ poll.pc = "done" /\ poll.res = "Timeout"

\* C23: a loop whose card never gives the awaited byte, on a bus without
\* errors, ends with Timeout, also when no transfer suspends.
C23_PollingLoopTimesOut == PollStarved ~> PollTimedOut

\* The same for a bus whose transfers suspend.
PollSuspendingTimesOut == (PollStarved /\ poll.suspends) ~> PollTimedOut

\* Every race on a bus whose transfers suspend ends.
PollSuspendingEnds == (PollRunning /\ poll.suspends) ~> (poll.pc = "done")

\* C31: a read or write with an empty buf takes no direct mode, makes no
\* device call, returns 0 and leaves cursor, buffer, current_block and dirty
\* as they were.
C31_EmptyBufIsNoOp ==
    (last.op \in {"read", "write"} /\ last.len = 0) =>
        /\ last.res = "ok" /\ last.n = 0
        /\ last.calls = <<>>
        /\ \A i \in 1..Len(last.modes) : last.modes[i] # "direct"
        /\ current_offset = last.off
        /\ buffer = last.pre.buffer
        /\ current_block = last.pre.current_block
        /\ dirty = last.pre.dirty

\* C32: a read or write at any cursor returns Ok or a typed error: a cursor
\* whose block index does not fit a block address gives an error value, no
\* panic and no truncated block address.
C32_LargeCursorIsTypedError ==
    /\ ~panicked
    /\ last.op \in {"read", "write"} =>
          /\ last.res \in {"ok", "err"}
          /\ last.off \div SIZE > U32MAX => (last.res = "err" /\ last.calls = <<>>)
          /\ \A i \in 1..Len(last.calls) : last.calls[i].block <= U32MAX

\* The token reads of the observed call that brought a byte, and the length
\* of the data block the call asks for.
TokenReads == {j \in SdAt("read", "token") : last.log[j].ok}
TokenByte(j) == last.log[j].bytes[1]
BlockLen == IF last.op = "sd_init" THEN REG_LEN ELSE SIZE
\* After the token at position j: the payload in one transfer of BlockLen
\* bytes, then the CRC in one transfer of 2 bytes.
BlockFollows(j) ==
    /\ j < Len(last.log) =>
          /\ last.log[j + 1].ev = "read" /\ last.log[j + 1].why = "payload"
          /\ last.log[j + 1].ok => Len(last.log[j + 1].bytes) = BlockLen
    /\ (j + 1 < Len(last.log) /\ last.log[j + 1].ok) =>
          /\ last.log[j + 2].ev = "read" /\ last.log[j + 2].why = "crc"
          /\ last.log[j + 2].ok => Len(last.log[j + 2].bytes) = 2
    /\ j = Len(last.log) => last.res = "Timeout"
\* The wait for the token goes on after position j, unless the delay wins.
WaitGoesOn(j) ==
    \/ j < Len(last.log) /\ last.log[j + 1].ev = "read" /\ last.log[j + 1].why = "token"
    \/ j = Len(last.log) /\ last.res = "Timeout"

\* C33 as stated: the wait for a data block ends at 0xFE only, every other
\* byte is polled over; after 0xFE exactly the payload and 2 CRC bytes are
\* read.
C33_TokenWaitEndsAtStartBlockOnly ==
    (last.op \in {"sd_read", "sd_init"}) =>
        /\ \A j \in TokenReads :
              IF TokenByte(j) = DATA_START_BLOCK THEN BlockFollows(j) ELSE WaitGoesOn(j)
        /\ \A j \in SdAt("read", "payload") : j > 1 /\ (j - 1) \in TokenReads

\* C33 as amended: the wait goes on while the byte read is 0xFF; the first
\* other byte ends it: 0xFE is followed by exactly the payload and 2 CRC
\* bytes, any other byte ends the call with RegisterError(byte) and no
\* further transfer.
C33_TokenWaitEndsAtFirstNonIdleByte ==
    (last.op \in {"sd_read", "sd_init"}) =>
        /\ \A j \in TokenReads :
              CASE TokenByte(j) = DATA_START_BLOCK -> BlockFollows(j)
                [] TokenByte(j) = 255 -> WaitGoesOn(j)
                [] OTHER -> /\ j = Len(last.log)
                            /\ last.res = "RegisterError"
                            /\ last.errv = <<TokenByte(j)>>
        /\ \A j \in SdAt("read", "payload") :
              /\ j > 1 /\ (j - 1) \in TokenReads
              /\ TokenByte(j - 1) = DATA_START_BLOCK

\* A read of two blocks received the first, polled over a 0xFF or not, and
\* met a data error token in place of the second.
C33_Witness ==
    /\ SdObserved("sd_read") /\ last.n = 2
    /\ last.res = "RegisterError" /\ last.errv = <<1>>
    /\ Len(SdPayloads) = 1
    /\ Cardinality(TokenReads) = 2

\* The idle reads of the observed call that brought a byte.
IdleReads == {j \in SdAt("read", "idle") : last.log[j].ok}

\* C34: every command frame other than CMD0 goes out right after a byte
\* 0xFF was read: while the card answers anything else the driver reads on,
\* until the delay of wait_idle wins and the call fails with Timeout.  So no
\* such command is sent to a card that still signals busy.
C34_CommandsWaitForIdle ==
    (last.op \in {"sd_init", "sd_read", "sd_write"}) =>
        /\ \A j \in SdAt("write", "cmd") :
              last.log[j].cmd # 0 =>
                  /\ j > 1 /\ (j - 1) \in IdleReads
                  /\ last.log[j - 1].bytes = <<255>>
        /\ \A j \in IdleReads :
              last.log[j].bytes # <<255>> =>
                  \/ /\ j < Len(last.log)
                     /\ last.log[j + 1].ev = "read" /\ last.log[j + 1].why = "idle"
                  \/ j = Len(last.log) /\ last.res = "Timeout"

\* A write of one block found the card busy before the status command, read
\* on, and sent CMD13 after the 0xFF.
C34_Witness ==
    /\ SdObserved("sd_write") /\ last.res = "ok" /\ last.n = 1
    /\ \E j \in SdCmdAt(13) :
          /\ j > 2 /\ last.log[j - 1].bytes = <<255>>
          /\ (j - 2) \in IdleReads /\ last.log[j - 2].bytes # <<255>>

\* The iterations the observed read or write started: the completed ones
\* and the one an error or a panic ended.
Iterations == Completed + (IF last.res = "ok" THEN 0 ELSE 1)
\* The blocks that hold bytes [off, off + len).
BlocksTouched == ((last.off % SIZE) + last.len + SIZE - 1) \div SIZE

\* C35: a read or write whose device calls return ends: an empty buf takes
\* one iteration; every completed iteration on a nonempty buf consumes at
\* least one byte, and there are no more iterations than blocks under the
\* bytes asked for, which is at most len / SIZE + 2.
C35_LoopTerminates ==
    (last.op \in {"read", "write"}) =>
        /\ last.len = 0 => Iterations = 1
        /\ last.len > 0 =>
              /\ Completed <= last.n
              /\ last.n <= last.len
              /\ Iterations >= 1
              /\ Iterations <= BlocksTouched
              /\ BlocksTouched <= (last.len \div SIZE) + 2
        /\ Len(last.calls) <= 3 * Iterations

\* A read that took one iteration for each block under its bytes.
C35_Witness ==
    /\ ObservedOk("read") /\ last.len = SIZE + 1
    /\ last.modes = <<"cached", "cached">>
    /\ Iterations = BlocksTouched

\* C36: a read returns what the stream itself wrote before, flushed or not:
\* in a run without failures a read inside the device returns the bytes of
\* the oracle, also when it is served from the device in direct mode.
C36_ReadSeesOwnWrites ==
    (ObservedOk("read") /\ noErr /\ last.off + last.len <= DevLen) =>
        last.data = Bytes(last.pre.oracle, last.off, last.len)

\* ---------------------------------------------------------------------
\* BufStream on the cached path: runs in which no call takes direct mode
\* and no device call fails
\* ---------------------------------------------------------------------
\* The call that ran to machine m took no direct mode and did not fail.
CachedOnly(m) ==
    /\ m.err = "ok"
    /\ \A i \in 1..Len(m.modes) : m.modes[i] # "direct"

CachedRead ==
    /\ \E len \in 0..MaxLen, addr \in 0..(ALIGN - 1), observe \in BOOLEAN :
          /\ CachedOnly(ReadLoop(Machine(0), len, addr, len))
          /\ Read(len, addr, 0, observe)
    /\ UNCHANGED <<sliceVars, sdVars, auxVars>>
CachedWrite ==
    /\ \E len \in 0..MaxLen, v \in Byte, addr \in 0..(ALIGN - 1), observe \in BOOLEAN :
          /\ CachedOnly(WriteLoop(Machine(0), Payload(v, len), addr, Payload(v, len)))
          /\ Write(len, v, addr, 0, observe, FALSE)
    /\ UNCHANGED <<sliceVars, sdVars, auxVars>>
CachedFlush ==
    /\ \E observe \in BOOLEAN :
          /\ CachedOnly(flush(Machine(0)))
          /\ Flush(0, observe)
    /\ UNCHANGED <<sliceVars, sdVars, auxVars>>
CachedSeek ==
    /\ \/ \E x \in SeekStarts, observe \in BOOLEAN : Seek("Start", x, FALSE, observe)
       \/ \E x \in SeekDeltas, observe \in BOOLEAN : Seek("Current", x, FALSE, observe)
       \/ \E x \in SeekDeltas, observe \in BOOLEAN : Seek("End", x, FALSE, observe)
    /\ UNCHANGED <<sliceVars, sdVars, auxVars>>

CachedNext == CachedRead \/ CachedWrite \/ CachedFlush \/ CachedSeek

CachedSpec == Init /\ [][CachedNext]_vars

C38_MultiBlockAlwaysClosed ==
    /\ (SdObserved("sd_read") /\ last.res # "SpiError") =>
          \A j \in SdCmdAt(18) :
              last.log[j].ok => \E k \in SdCmdAt(12) : k > j
    /\ (SdObserved("sd_write") /\ last.res # "SpiError") =>
          \A j \in SdCmdAt(25) :
              last.log[j].ok =>
                  \E k \in SdAt("write", "stop") :
                      k > j /\ last.log[k].bytes = <<STOP_TRAN_TOKEN>>

\* C39: seek(SeekFrom::End(x)) puts the cursor at size() + x, as StreamSlice
\* does: a negative x leads before the end of the device.
C39_SeekEndAddsOffset ==
    (ObservedOk("seek") /\ last.whence = "End") =>
        /\ current_offset = (DevLen + last.x) % U64MOD
        /\ last.x < 0 => current_offset < DevLen

\* The slice call i of the observed operation handed to slice_to_blocks or
\* slice_to_blocks_mut: for a direct call what is left of the caller's buf,
\* for a flush or a load the internal buffer, an Aligned<ALIGN, [u8; SIZE]>.
HandedSlice(i) ==
    IF last.calls[i].why = "direct"
    THEN [ptr |-> last.addr + (last.calls[i].block * SIZE - last.off),
          bytes |-> [k \in 1..(last.off + last.len - last.calls[i].block * SIZE) |-> 0]]
    ELSE [ptr |-> 0, bytes |-> BufSeq(last.pre.buffer)]

\* C40: with ALIGN a divisor of SIZE, no read, write or flush trips an
\* assert of slice_to_blocks or slice_to_blocks_mut: every slice handed to
\* the device passes the length and alignment asserts and the block view
\* stays inside it.
C40_ConversionAssertsHold ==
    (last.op \in {"read", "write", "flush"} /\ SIZE % ALIGN = 0) =>
        \A i \in 1..Len(last.calls) :
            /\ slice_to_blocks(ALIGN, SIZE, HandedSlice(i), 0).res = "ok"
            /\ ~slice_to_blocks(ALIGN, SIZE, HandedSlice(i), 0).oob
            /\ Len(slice_to_blocks_mut(ALIGN, SIZE, HandedSlice(i), 0).blocks)
                  = last.calls[i].n

\* A write that began at an odd address inside a block flushed the internal
\* buffer and then handed the aligned rest of buf to the device.
C40_Witness ==
    /\ ObservedOk("write") /\ last.addr % ALIGN = 1
    /\ last.modes = <<"cached", "direct">>
    /\ \E i \in 1..Len(last.calls) : last.calls[i].why = "flush"
    /\ last.calls[Len(last.calls)].why = "direct"

====
